---- MODULE Spec2Model ----
(***************************************************************************)
(* Phomemo D30 web printer: the print-data framing (getPrintData,          *)
(* HEADER_DATA, END_DATA), the transport loop of printCanvas and the form  *)
(* submit handler that starts print jobs.                                  *)
(*                                                                         *)
(* The repository carries two copies of printer.js that differ in          *)
(* getWhitePixel / getPrintData and in the write primitive used for the    *)
(* payload chunks: src/beta/src/printer.js ("beta") and the copy at the    *)
(* end of src/unnamed/part_001 ("part_001").  The variable `variant`       *)
(* selects the copy a run executes.                                        *)
(***************************************************************************)
EXTENDS Integers, Sequences, FiniteSets, TLC

(***************************************************************************)
(* Bounds of the model.                                                    *)
(***************************************************************************)
\* number of form submits (print jobs) in one run
MaxJobs == 2
\* SpecPack: images of every shape with at most MaxBytes packed bytes
MaxBytes == 4
\* the dithering specifications: images of up to MaxSide x MaxSide pixels
MaxSide == 3

(***************************************************************************)
(* Program constants.                                                      *)
(***************************************************************************)
PACKET_SIZE_BYTES == 128

END_DATA == <<27, 100, 0>>

Black == 0
White == 255

PrinterVariants == {"beta", "part_001"}

\* value of the #threshold input as parseInt sees it; NaN when the element
\* is absent or its value does not parse
NaN == -1
ThresholdInputs == {NaN, 0, 1, 255}

Jobs == 1..MaxJobs

(***************************************************************************)
(* Canvases.  A canvas is its width, its height and its pixels in          *)
(* row-major order; every pixel is an opaque gray g, i.e. the RGBA         *)
(* quadruple (g, g, g, 255).                                               *)
(***************************************************************************)
Bit(n, b) == (n \div (2 ^ b)) % 2

\* pixel (x, y) of the test pictures: "counter" paints a picture whose
\* 8-pixel groups all differ along the payload (group number o+1 written
\* in binary, least significant bit on the left)
PatternPixel(pat, w, x, y) ==
    CASE pat = "white" -> White
      [] pat = "black" -> Black
      [] OTHER -> IF Bit(y * (w \div 8) + (x \div 8) + 1, x % 8) = 1
                  THEN Black ELSE White

MakeCanvas(w, h, pat) ==
    [width |-> w, height |-> h,
     px |-> [p \in 1..(w * h) |-> PatternPixel(pat, w, (p - 1) % w, (p - 1) \div w)]]

\* 8 horizontally consecutive pixels
Strips ==
    { <<White, White, White, White, White, White, White, White>>,
      <<Black, Black, Black, Black, Black, Black, Black, Black>>,
      <<Black, White, White, White, White, White, White, White>>,
      <<Black, Black, White, Black, White, White, White, Black>> }

\* the canvas of w8 bytes per row and h rows whose 8-pixel groups are f[1..]
StripCanvas(w8, h, f) ==
    [width |-> 8 * w8, height |-> h,
     px |-> [p \in 1..(8 * w8 * h) |-> f[((p - 1) \div 8) + 1][((p - 1) % 8) + 1]]]

\* canvases of the runs with up to MaxJobs submits: payloads of 1 and 129
\* bytes
TransportCanvases ==
    { MakeCanvas(8, 1, "counter"),
      MakeCanvas(8, 129, "counter") }

\* canvases of the runs with a single submit: payloads of 127, 128, 256,
\* 257, 640 and 1000 bytes
LongTransportCanvases ==
    { MakeCanvas(8, 127, "counter"),
      MakeCanvas(8, 128, "counter"),
      MakeCanvas(16, 128, "counter"),
      MakeCanvas(8, 257, "counter"),
      MakeCanvas(40, 128, "black"),
      MakeCanvas(64, 125, "counter") }

\* canvases whose header fields need the high byte, and the 96 x 320 label
HeaderCanvases ==
    { MakeCanvas(96, 320, "counter"),
      MakeCanvas(2048, 1, "counter"),
      MakeCanvas(2056, 1, "white"),
      MakeCanvas(8, 256, "counter"),
      MakeCanvas(8, 600, "black") }

(***************************************************************************)
(* printer.js: pure functions.                                             *)
(***************************************************************************)
\* ctx.getImageData(0, 0, width, height).data : 0-based RGBA bytes
getImageData(c) ==
    [n \in 0..(4 * c.width * c.height - 1) |->
        IF n % 4 = 3 THEN 255 ELSE c.px[(n \div 4) + 1]]

\* parseInt(document.querySelector("#threshold")?.value) || 128
EffectiveThreshold(t) == IF t = NaN \/ t = 0 THEN 128 ELSE t

\* 1 if the pixel is white, 0 if black.  A read past the end of the image
\* data gives undefined, the sum is NaN and every comparison with it is false.
getWhitePixel(v, c, imageData, x, y, t) ==
    LET index == (y * c.width + x) * 4
        r == imageData[index]
        g == imageData[index + 1]
        b == imageData[index + 2]
    IN  IF index + 2 > 4 * c.width * c.height - 1
        THEN (IF v = "beta" THEN 0 ELSE 1)
        ELSE IF v = "beta"
        THEN (IF r + g + b > 384 THEN 1 ELSE 0)
        ELSE (IF r + g + b < 3 * EffectiveThreshold(t) THEN 0 ELSE 1)

\* the bit a pixel contributes to its byte
PixelBit(v, c, imageData, x, y, t) ==
    IF v = "beta"
    THEN getWhitePixel(v, c, imageData, x, y, t)
    ELSE 1 - getWhitePixel(v, c, imageData, x, y, t)

ToUint8(n) == n % 256

\* new Uint8Array((canvas.width / 8) * canvas.height) truncates its length;
\* the inner loop runs for every k < canvas.width / 8 and a store past the
\* end of the array is dropped
getPrintData(v, c, t) ==
    LET imageData == getImageData(c)
        w8 == (c.width + 7) \div 8
    IN  [o \in 1..((c.width * c.height) \div 8) |->
            LET y == (o - 1) \div w8
                k8 == ((o - 1) % w8) * 8
            IN  ToUint8(  PixelBit(v, c, imageData, k8 + 0, y, t) * 128
                        + PixelBit(v, c, imageData, k8 + 1, y, t) * 64
                        + PixelBit(v, c, imageData, k8 + 2, y, t) * 32
                        + PixelBit(v, c, imageData, k8 + 3, y, t) * 16
                        + PixelBit(v, c, imageData, k8 + 4, y, t) * 8
                        + PixelBit(v, c, imageData, k8 + 5, y, t) * 4
                        + PixelBit(v, c, imageData, k8 + 6, y, t) * 2
                        + PixelBit(v, c, imageData, k8 + 7, y, t))]

\* the two 16-bit fields written high byte first
HEADER_DATA_BigEndian(mmWidth, bytes) ==
    << 27, 64, 29, 118, 48, 0,
       ToUint8(mmWidth \div 256), ToUint8(mmWidth % 256),
       ToUint8(bytes \div 256), ToUint8(bytes % 256) >>

HEADER_DATA(mmWidth, bytes) ==
    << 27, 64, 29, 118, 48, 0,
       ToUint8(mmWidth % 256), ToUint8(mmWidth \div 256),
       ToUint8(bytes % 256), ToUint8(bytes \div 256) >>

\* HEADER_DATA(canvas.width / 8, data.length / (canvas.width / 8))
\* the Uint8Array built from the header keeps the integer part of each field
printCanvasHeader(c, d) ==
    HEADER_DATA(c.width \div 8, (8 * Len(d)) \div c.width)

\* slice with the end position taken as inclusive
sliceInclusive(d, from, to) ==
    SubSeq(d, from + 1, IF to + 1 < Len(d) THEN to + 1 ELSE Len(d))

\* TypedArray.prototype.slice(from, to) on 0-based positions
slice(d, from, to) ==
    SubSeq(d, from + 1, IF to < Len(d) THEN to ELSE Len(d))

\* the write primitive used for a payload chunk
ChunkWriteMode(v) ==
    IF v = "beta" THEN "withResponse" ELSE "withoutResponse"

(***************************************************************************)
(* State.                                                                  *)
(***************************************************************************)
VARIABLES
    variant,         \* which copy of printer.js runs
    canvas,          \* the #canvas element
    thresholdInput,  \* the #threshold input
    pendingSubmits,  \* number of submit events the user will still raise
    submitted,       \* number of submit events handled so far
    pc,              \* per job: the promise the job is suspended on
    data,            \* per job: const data of printCanvas
    i,               \* per job: loop variable i of printCanvas
    inflight,        \* per job: writes issued and not yet settled
    log,             \* per job: history of writes, settlements and timers
    errorCalls,      \* per job: handleError calls made by the job's catch
    call,            \* arguments of the image-processing call under analysis
    runs,            \* outcomes of successive calls on the same buffer
    copies,          \* outcomes of calls on fresh copies of the arguments
    dom,             \* values of the input elements of the page
    labelSize,       \* const labelSize
    generatedCode,   \* let generatedCode
    processedImage,  \* let processedImage
    reported,        \* messages passed to handleError by the update handlers
    pending          \* updateCanvasText calls suspended in await generateCode

\* the state of the image-processing functions
imagingVars == <<call, runs, copies>>

\* the state of the print jobs
transportVars == <<variant, canvas, thresholdInput, pendingSubmits, submitted, pc, data, i,
                   inflight, log, errorCalls>>

\* the state of the label editor
editorVars == <<dom, labelSize, generatedCode, processedImage, reported, pending>>

vars == <<variant, canvas, thresholdInput, pendingSubmits, submitted, pc, data, i,
          inflight, log, errorCalls, call, runs, copies,
          dom, labelSize, generatedCode, processedImage, reported, pending>>

\* no image-processing call has been made
NoCall == [fn |-> "none"]

\* the page as loaded, with no input event handled: labelSize, generatedCode
\* and processedImage as declared at the top of index.js
EditorIdle ==
    /\ dom = [inputWidth |-> 40, inputHeight |-> 12, inputFontSize |-> 12,
              codeType |-> "none", codeData |-> ""]
    /\ labelSize = [width |-> 40, height |-> 12]
    /\ generatedCode = "null"
    /\ processedImage = "null"
    /\ reported = <<>>
    /\ pending = <<>>

ImagingIdle ==
    /\ call = NoCall
    /\ runs = <<>>
    /\ copies = <<>>
    /\ EditorIdle

GattStages == <<"requestDevice", "connect", "getPrimaryService", "getCharacteristic">>

StageIndex(s) == CHOOSE n \in 1..Len(GattStages) : GattStages[n] = s

IsGattStage(s) == \E n \in 1..Len(GattStages) : GattStages[n] = s

IssueEv(kind, mode, bytes, at) ==
    [ev |-> "issue", kind |-> kind, mode |-> mode, bytes |-> bytes, at |-> at, ok |-> TRUE]

SettleEv(kind, ok) ==
    [ev |-> "settle", kind |-> kind, mode |-> "", bytes |-> <<>>, at |-> 0, ok |-> ok]

TimerEv(ev) ==
    [ev |-> ev, kind |-> "", mode |-> "", bytes |-> <<>>, at |-> 0, ok |-> TRUE]

InitJobs ==
    /\ submitted = 0
    /\ pc = [j \in Jobs |-> "idle"]
    /\ data = [j \in Jobs |-> <<>>]
    /\ i = [j \in Jobs |-> 0]
    /\ inflight = [j \in Jobs |-> 0]
    /\ log = [j \in Jobs |-> <<>>]
    /\ errorCalls = [j \in Jobs |-> 0]

Init ==
    /\ variant \in PrinterVariants
    /\ \/ canvas \in TransportCanvases /\ pendingSubmits = MaxJobs
       \/ canvas \in LongTransportCanvases /\ pendingSubmits = 1
    /\ thresholdInput = 128
    /\ InitJobs
    /\ ImagingIdle

(***************************************************************************)
(* The form submit handler and its promise chain.                          *)
(***************************************************************************)
\* $("form").addEventListener("submit", ...): navigator.bluetooth.requestDevice.
\* No copy of the handler looks at a job already running.
Submit ==
    /\ pendingSubmits > 0
    /\ pendingSubmits' = pendingSubmits - 1
    /\ submitted' = submitted + 1
    /\ pc' = [pc EXCEPT ![submitted + 1] = "requestDevice"]
    /\ UNCHANGED <<variant, canvas, thresholdInput, data, i, inflight, log, errorCalls>>
    /\ UNCHANGED imagingVars
    /\ UNCHANGED editorVars

\* printCanvas whose header write is not awaited: the first chunk is issued
\* in the same turn
PrintCanvasStartNoAwait(j) ==
    LET d == getPrintData(variant, canvas, thresholdInput) IN
    /\ data' = [data EXCEPT ![j] = d]
    /\ log' = [log EXCEPT ![j] =
                 Append(Append(@, IssueEv("header", "withResponse", printCanvasHeader(canvas, d), 0)),
                        IssueEv("chunk", ChunkWriteMode(variant), slice(d, 0, PACKET_SIZE_BYTES), 0))]
    /\ inflight' = [inflight EXCEPT ![j] = @ + 2]
    /\ pc' = [pc EXCEPT ![j] = "chunk"]
    /\ UNCHANGED <<i, errorCalls>>

\* printCanvas up to its first await: getPrintData, then the header write
PrintCanvasStart(j) ==
    LET d == getPrintData(variant, canvas, thresholdInput) IN
    /\ data' = [data EXCEPT ![j] = d]
    /\ log' = [log EXCEPT ![j] =
                 Append(@, IssueEv("header", "withResponse", printCanvasHeader(canvas, d), 0))]
    /\ inflight' = [inflight EXCEPT ![j] = @ + 1]
    /\ pc' = [pc EXCEPT ![j] = "header"]
    /\ UNCHANGED <<i, errorCalls>>

\* one of requestDevice / connect / getPrimaryService / getCharacteristic
\* settles; the last then-callback calls printCanvas
GattSettled(j, ok) ==
    /\ IsGattStage(pc[j])
    /\ IF ~ok
       THEN /\ pc' = [pc EXCEPT ![j] = "rejected"]
            /\ UNCHANGED <<data, i, inflight, log, errorCalls>>
       ELSE IF StageIndex(pc[j]) < Len(GattStages)
            THEN /\ pc' = [pc EXCEPT ![j] = GattStages[StageIndex(pc[j]) + 1]]
                 /\ UNCHANGED <<data, i, inflight, log, errorCalls>>
            ELSE PrintCanvasStart(j)
    /\ UNCHANGED <<variant, canvas, thresholdInput, pendingSubmits, submitted>>
    /\ UNCHANGED imagingVars
    /\ UNCHANGED editorVars

\* the loop pass whose chunk write is not awaited: the pacing timer is
\* started while the write is still in flight
LoopIterationNoAwait(j, k, lg, infl) ==
    LET chunk == slice(data[j], k, k + PACKET_SIZE_BYTES) IN
    /\ i' = [i EXCEPT ![j] = k]
    /\ inflight' = [inflight EXCEPT ![j] = infl + 1]
    /\ IF Len(chunk) = 0
       THEN /\ log' = [log EXCEPT ![j] =
                         Append(lg, IssueEv("end", "withResponse", END_DATA, k))]
            /\ pc' = [pc EXCEPT ![j] = "end"]
       ELSE /\ log' = [log EXCEPT ![j] =
                         Append(Append(lg, IssueEv("chunk", ChunkWriteMode(variant), chunk, k)),
                                TimerEv("timerStart"))]
            /\ pc' = [pc EXCEPT ![j] = "delay"]

\* one pass through the for loop of printCanvas with loop variable k, up to
\* the next await: the chunk write, or after break the END_DATA write
LoopIteration(j, k, lg, infl) ==
    LET chunk == slice(data[j], k, k + PACKET_SIZE_BYTES) IN
    /\ i' = [i EXCEPT ![j] = k]
    /\ inflight' = [inflight EXCEPT ![j] = infl + 1]
    /\ IF Len(chunk) = 0
       THEN /\ log' = [log EXCEPT ![j] =
                         Append(lg, IssueEv("end", "withResponse", END_DATA, k))]
            /\ pc' = [pc EXCEPT ![j] = "end"]
       ELSE /\ log' = [log EXCEPT ![j] =
                         Append(lg, IssueEv("chunk", ChunkWriteMode(variant), chunk, k))]
            /\ pc' = [pc EXCEPT ![j] = "chunk"]

\* resumption without the pacing delay: the next pass runs at once
WriteResumedNoDelay(j, lg) ==
    CASE pc[j] = "header" -> LoopIteration(j, 0, lg, inflight[j] - 1)
      [] pc[j] = "chunk" ->
            LoopIteration(j, i[j] + PACKET_SIZE_BYTES, lg, inflight[j] - 1)
      [] OTHER ->
            /\ pc' = [pc EXCEPT ![j] = "done"]
            /\ log' = [log EXCEPT ![j] = lg]
            /\ inflight' = [inflight EXCEPT ![j] = @ - 1]
            /\ UNCHANGED i

\* resumption that never reaches the loop after the header write
WriteResumedNoLoop(j, lg) ==
    CASE pc[j] = "header" ->
            /\ pc' = [pc EXCEPT ![j] = "stalled"]
            /\ log' = [log EXCEPT ![j] = lg]
            /\ inflight' = [inflight EXCEPT ![j] = @ - 1]
            /\ UNCHANGED i
      [] pc[j] = "chunk" ->
            /\ pc' = [pc EXCEPT ![j] = "delay"]
            /\ log' = [log EXCEPT ![j] = Append(lg, TimerEv("timerStart"))]
            /\ inflight' = [inflight EXCEPT ![j] = @ - 1]
            /\ UNCHANGED i
      [] OTHER ->
            /\ pc' = [pc EXCEPT ![j] = "done"]
            /\ log' = [log EXCEPT ![j] = lg]
            /\ inflight' = [inflight EXCEPT ![j] = @ - 1]
            /\ UNCHANGED i

\* the awaited write settled successfully: printCanvas resumes
WriteResumed(j, lg) ==
    CASE pc[j] = "header" -> LoopIteration(j, 0, lg, inflight[j] - 1)
      [] pc[j] = "chunk" ->
            \* await new Promise(r => setTimeout(r, 10))
            /\ pc' = [pc EXCEPT ![j] = "delay"]
            /\ log' = [log EXCEPT ![j] = Append(lg, TimerEv("timerStart"))]
            /\ inflight' = [inflight EXCEPT ![j] = @ - 1]
            /\ UNCHANGED i
      [] OTHER ->
            /\ pc' = [pc EXCEPT ![j] = "done"]
            /\ log' = [log EXCEPT ![j] = lg]
            /\ inflight' = [inflight EXCEPT ![j] = @ - 1]
            /\ UNCHANGED i

\* a failed write whose error is swallowed: the loop goes on
WriteRejectedIgnored(j, lg) == WriteResumed(j, lg)

\* the awaited write failed: the await throws and printCanvas rejects
WriteRejected(j, lg) ==
    /\ pc' = [pc EXCEPT ![j] = "rejected"]
    /\ log' = [log EXCEPT ![j] = lg]
    /\ inflight' = [inflight EXCEPT ![j] = @ - 1]
    /\ UNCHANGED i

WriteSettled(j, ok) ==
    /\ pc[j] \in {"header", "chunk", "end"}
    /\ LET lg == Append(log[j], SettleEv(pc[j], ok)) IN
       IF ok THEN WriteResumed(j, lg) ELSE WriteRejected(j, lg)
    /\ UNCHANGED <<variant, canvas, thresholdInput, pendingSubmits, submitted, data, errorCalls>>
    /\ UNCHANGED imagingVars
    /\ UNCHANGED editorVars

\* the 10 ms timer expires: i += PACKET_SIZE_BYTES and the next pass
TimerFired(j) ==
    /\ pc[j] = "delay"
    /\ LoopIteration(j, i[j] + PACKET_SIZE_BYTES,
                     Append(log[j], TimerEv("timerFire")), inflight[j])
    /\ UNCHANGED <<variant, canvas, thresholdInput, pendingSubmits, submitted, data, errorCalls>>
    /\ UNCHANGED imagingVars
    /\ UNCHANGED editorVars

\* a catch handler that reports and starts the chain again
CatchHandlerRetry(j) ==
    /\ pc[j] = "rejected"
    /\ errorCalls' = [errorCalls EXCEPT ![j] = @ + 1]
    /\ pc' = [pc EXCEPT ![j] = "requestDevice"]
    /\ UNCHANGED <<variant, canvas, thresholdInput, pendingSubmits, submitted, data, i, inflight, log>>
    /\ UNCHANGED imagingVars
    /\ UNCHANGED editorVars

\* .catch(handleError)
CatchHandler(j) ==
    /\ pc[j] = "rejected"
    /\ errorCalls' = [errorCalls EXCEPT ![j] = @ + 1]
    /\ pc' = [pc EXCEPT ![j] = "failed"]
    /\ UNCHANGED <<variant, canvas, thresholdInput, pendingSubmits, submitted, data, i, inflight, log>>
    /\ UNCHANGED imagingVars
    /\ UNCHANGED editorVars

Next ==
    \/ Submit
    \/ \E j \in Jobs, ok \in BOOLEAN : GattSettled(j, ok)
    \/ \E j \in Jobs, ok \in BOOLEAN : WriteSettled(j, ok)
    \/ \E j \in Jobs : TimerFired(j)
    \/ \E j \in Jobs : CatchHandler(j)

Spec == Init /\ [][Next]_vars

(***************************************************************************)
(* SpecPack: getPrintData and the header on bounded sets of canvases.  A   *)
(* run starts with job 1 awaiting getCharacteristic and takes the step     *)
(* that calls printCanvas.                                                 *)
(***************************************************************************)
PackShapes ==
    { sh \in (1..MaxBytes) \X (1..MaxBytes) : sh[1] * sh[2] <= MaxBytes }

PackCanvases ==
    HeaderCanvases \cup
    UNION { { StripCanvas(sh[1], sh[2], f) : f \in [1..(sh[1] * sh[2]) -> Strips] } :
            sh \in PackShapes }

\* only the part_001 copy reads the #threshold input
InitPack ==
    /\ \/ variant = "beta" /\ thresholdInput = NaN
       \/ variant = "part_001" /\ thresholdInput \in ThresholdInputs
    /\ canvas \in PackCanvases
    /\ pendingSubmits = 0
    /\ submitted = 1
    /\ pc = [j \in Jobs |-> IF j = 1 THEN "getCharacteristic" ELSE "idle"]
    /\ data = [j \in Jobs |-> <<>>]
    /\ i = [j \in Jobs |-> 0]
    /\ inflight = [j \in Jobs |-> 0]
    /\ log = [j \in Jobs |-> <<>>]
    /\ errorCalls = [j \in Jobs |-> 0]
    /\ ImagingIdle

NextPack ==
    /\ pc[1] = "getCharacteristic"
    /\ GattSettled(1, TRUE)

SpecPack == InitPack /\ [][NextPack]_vars

(***************************************************************************)
(* SpecOddWidth: one print job on a canvas whose width is not a multiple   *)
(* of 8.  updateLabelSize sets canvas.width = labelSize.height * 8 from a  *)
(* number input, so a label height of 12.5 gives a canvas 100 pixels wide. *)
(***************************************************************************)
OddWidthCanvases ==
    { MakeCanvas(w, h, pat) : w \in {4, 12, 20, 100}, h \in 1..3,
                              pat \in {"white", "black", "counter"} }

InitOddWidth ==
    /\ variant \in PrinterVariants
    /\ canvas \in OddWidthCanvases
    /\ pendingSubmits = 1
    /\ thresholdInput = 128
    /\ InitJobs
    /\ ImagingIdle

SpecOddWidth == InitOddWidth /\ [][Next]_vars

(***************************************************************************)
(* index.js: ditherImageData.  An ImageData is its width, its height and   *)
(* its pixels in row-major order, each pixel the quadruple <<R, G, B, A>>. *)
(*                                                                         *)
(* The gray field is a Float32Array.  The model keeps a gray value as an   *)
(* integer number of 1/GrayUnit steps and rounds every quotient to the     *)
(* nearest step.                                                           *)
(***************************************************************************)
GrayUnit == 4000

\* a / b rounded to the nearest integer, for b > 0
RoundDiv(a, b) == (a \div b) + (IF 2 * (a % b) >= b THEN 1 ELSE 0)

\* a * m / b rounded to the nearest integer, for m >= 0 and b > 0
MulDiv(a, m, b) == (a \div b) * m + RoundDiv((a % b) * m, b)

Clamp(lo, hi, v) == IF v < lo THEN lo ELSE IF v > hi THEN hi ELSE v

\* edgeMap = null; an edge map of an image has an entry for each pixel
null == <<>>

\* Math.max(0, Math.min(255, contrastFactor * (v - 128) + 128 + brightnessAdjust))
\* with contrastFactor = (259 * (contrast + 255)) / (255 * (259 - contrast))
\* and brightnessAdjust = brightness * 2.55
AdjustChannel(v, brightness, contrast) ==
    Clamp(0, 255 * GrayUnit,
          MulDiv(259 * (contrast + 255) * (v - 128), GrayUnit, 255 * (259 - contrast))
          + 128 * GrayUnit
          + (brightness * 255 * GrayUnit) \div 100)

\* 0.299 * adjustedR + 0.587 * adjustedG + 0.114 * adjustedB
Luminance(px, brightness, contrast) ==
    RoundDiv(  299 * AdjustChannel(px[1], brightness, contrast)
             + 587 * AdjustChannel(px[2], brightness, contrast)
             + 114 * AdjustChannel(px[3], brightness, contrast), 1000)

\* (Math.random() - 0.5) * noiseAmount, for a draw of u / 1000
RandomNoise(u, noise) == RoundDiv((u - 500) * noise * 255 * (GrayUnit \div 100), 1000)

\* the tone-adjust loop adding noise of at least one step at every setting
GrayFieldJitter(imgData, brightness, contrast, noise, rnd) ==
    [p \in 1..Len(imgData.data) |->
        LET luminance == Luminance(imgData.data[p], brightness, contrast)
        IN  Clamp(0, 255 * GrayUnit, luminance + RandomNoise(rnd[p], noise + 100))]

\* the gray field after the tone-adjust loop; rnd[i] is the Math.random()
\* draw made for pixel i, which is made only when noise > 0
GrayField(imgData, brightness, contrast, noise, rnd) ==
    [p \in 1..Len(imgData.data) |->
        LET luminance == Luminance(imgData.data[p], brightness, contrast)
        IN  IF noise > 0
            THEN Clamp(0, 255 * GrayUnit, luminance + RandomNoise(rnd[p], noise))
            ELSE luminance]

\* setBWPixel without the store to the alpha byte
setBWPixelKeepAlpha(d, idx, val) == [d EXCEPT ![idx + 1] = <<val, val, val, @[4]>>]

\* setBWPixel(idx, val): data[idx * 4 .. idx * 4 + 2] = val, data[idx * 4 + 3] = 255
setBWPixel(d, idx, val) == [d EXCEPT ![idx + 1] = <<val, val, val, 255>>]

\* edgeStrength * k with edgeStrength = edgeMap[idx] / 255
EdgeTerm(edgeMap, idx, k) ==
    IF edgeMap = null THEN 0 ELSE RoundDiv(edgeMap[idx + 1] * k * GrayUnit, 255)

\* the comparison with its two results exchanged
QuantizeInverted(v, t) == IF v < t THEN 255 ELSE 0

\* gray < adjustedThreshold ? 0 : 255
Quantize(v, t) == IF v < t THEN 0 ELSE 255

\* the ordered matrices, ordered4 with two entries exchanged
OrderedMatrixSwapped(algorithm) ==
    CASE algorithm = "ordered2" -> << <<0, 2>>, <<3, 1>> >>
      [] algorithm = "ordered8" ->
            << <<0, 32, 8, 40, 2, 34, 10, 42>>, <<48, 16, 56, 24, 50, 18, 58, 26>>,
               <<12, 44, 4, 36, 14, 46, 6, 38>>, <<60, 28, 52, 20, 62, 30, 54, 22>>,
               <<3, 35, 11, 43, 1, 33, 9, 41>>, <<51, 19, 59, 27, 49, 17, 57, 25>>,
               <<15, 47, 7, 39, 13, 45, 5, 37>>, <<63, 31, 55, 23, 61, 29, 53, 21>> >>
      [] OTHER -> << <<0, 8, 2, 10>>, <<12, 4, 14, 6>>, <<3, 11, 9, 1>>, <<15, 7, 13, 5>> >>

\* let matrix: ordered2, ordered4, ordered8, else the ordered4 matrix again
OrderedMatrix(algorithm) ==
    CASE algorithm = "ordered2" -> << <<0, 2>>, <<3, 1>> >>
      [] algorithm = "ordered4" ->
            << <<0, 8, 2, 10>>, <<12, 4, 14, 6>>, <<3, 11, 1, 9>>, <<15, 7, 13, 5>> >>
      [] algorithm = "ordered8" ->
            << <<0, 32, 8, 40, 2, 34, 10, 42>>, <<48, 16, 56, 24, 50, 18, 58, 26>>,
               <<12, 44, 4, 36, 14, 46, 6, 38>>, <<60, 28, 52, 20, 62, 30, 54, 22>>,
               <<3, 35, 11, 43, 1, 33, 9, 41>>, <<51, 19, 59, 27, 49, 17, 57, 25>>,
               <<15, 47, 7, 39, 13, 45, 5, 37>>, <<63, 31, 55, 23, 61, 29, 53, 21>> >>
      [] OTHER -> << <<0, 8, 2, 10>>, <<12, 4, 14, 6>>, <<3, 11, 1, 9>>, <<15, 7, 13, 5>> >>

\* weight num / den at offset (x, y)
K(x, y, num, den) == [x |-> x, y |-> y, num |-> num, den |-> den]

errorKernels ==
    [floyd |-> << K(1, 0, 7, 16), K(-1, 1, 3, 16), K(0, 1, 5, 16), K(1, 1, 1, 16) >>,
     atkinson |-> << K(1, 0, 1, 8), K(2, 0, 1, 8), K(-1, 1, 1, 8), K(0, 1, 1, 8),
                     K(1, 1, 1, 8), K(0, 2, 1, 8) >>,
     stucki |-> << K(1, 0, 8, 42), K(2, 0, 4, 42),
                   K(-2, 1, 2, 42), K(-1, 1, 4, 42), K(0, 1, 8, 42), K(1, 1, 4, 42),
                   K(2, 1, 2, 42),
                   K(-2, 2, 1, 42), K(-1, 2, 2, 42), K(0, 2, 4, 42), K(1, 2, 2, 42),
                   K(2, 2, 1, 42) >>,
     jarvis |-> << K(1, 0, 7, 48), K(2, 0, 5, 48),
                   K(-2, 1, 3, 48), K(-1, 1, 5, 48), K(0, 1, 7, 48), K(1, 1, 5, 48),
                   K(2, 1, 3, 48),
                   K(-2, 2, 1, 48), K(-1, 2, 3, 48), K(0, 2, 5, 48), K(1, 2, 3, 48),
                   K(2, 2, 1, 48) >>,
     sierra |-> << K(1, 0, 5, 32), K(2, 0, 3, 32),
                   K(-2, 1, 2, 32), K(-1, 1, 4, 32), K(0, 1, 5, 32), K(1, 1, 4, 32),
                   K(2, 1, 2, 32),
                   K(-1, 2, 2, 32), K(0, 2, 3, 32), K(1, 2, 2, 32) >>,
     burkes |-> << K(1, 0, 8, 32), K(2, 0, 4, 32),
                   K(-2, 1, 2, 32), K(-1, 1, 4, 32), K(0, 1, 8, 32), K(1, 1, 4, 32),
                   K(2, 1, 2, 32) >>]

\* names that Object.prototype gives to every object literal: errorKernels[name]
\* is then a function (or an object) that is truthy and not iterable
InheritedNames == {"constructor", "toString"}

\* the fallback taken to another kernel of the table
KernelForAtkinson(algorithm) ==
    IF algorithm \in DOMAIN errorKernels
    THEN [iterable |-> TRUE, entries |-> errorKernels[algorithm]]
    ELSE IF algorithm \in InheritedNames
    THEN [iterable |-> FALSE, entries |-> <<>>]
    ELSE [iterable |-> TRUE, entries |-> errorKernels.atkinson]

\* errorKernels[algorithm] || errorKernels.floyd
KernelFor(algorithm) ==
    IF algorithm \in DOMAIN errorKernels
    THEN [iterable |-> TRUE, entries |-> errorKernels[algorithm]]
    ELSE IF algorithm \in InheritedNames
    THEN [iterable |-> FALSE, entries |-> <<>>]
    ELSE [iterable |-> TRUE, entries |-> errorKernels.floyd]

\* algorithm.startsWith("ordered"), on the names the model uses
startsWithOrdered(algorithm) ==
    algorithm \in {"ordered", "ordered2", "ordered3", "ordered4", "ordered8", "ordered16"}

\* for (const { x: dx, y: dy, weight } of kernel): entries n.. of the kernel,
\* gray[nIdx] += err * weight when (nx, ny) lies inside the image
RECURSIVE ApplyKernel(_, _, _, _, _, _, _, _, _)
ApplyKernel(gray, width, height, x, y, direction, err, kernel, n) ==
    IF n > Len(kernel) \/ Len(gray) < width * height THEN gray
    ELSE LET nx == x + kernel[n].x * direction
             ny == y + kernel[n].y
             nIdx == ny * width + nx
         IN  ApplyKernel(IF nx >= 0 /\ nx < width /\ ny >= 0 /\ ny < height
                         THEN [gray EXCEPT ![nIdx + 1] =
                                  @ + RoundDiv(err * kernel[n].num, kernel[n].den)]
                         ELSE gray,
                         width, height, x, y, direction, err, kernel, n + 1)

\* the scan reversed on the even rows instead
ScanDirectionEvenRows(serpentine, y) == IF serpentine /\ y % 2 = 0 THEN -1 ELSE 1

\* pixel (x, y) of the v-th pass through the inner loop, v = 0, 1, ...
ScanDirection(serpentine, y) == IF serpentine /\ y % 2 = 1 THEN -1 ELSE 1

ScanX(width, serpentine, v) ==
    IF ScanDirection(serpentine, v \div width) = 1
    THEN v % width ELSE width - 1 - (v % width)

\* the inner loop comparing with oldVal <= adjustedThreshold
QuantizePixelInclusive(st, width, threshold, serpentine, edgeMap, v) ==
    LET y == v \div width
        x == ScanX(width, serpentine, v)
        idx == y * width + x
        oldVal == st.gray[idx + 1]
        adjustedThreshold == threshold * GrayUnit - EdgeTerm(edgeMap, idx, 20)
        newVal == IF oldVal <= adjustedThreshold THEN 0 ELSE 255
    IN  [gray |-> [st.gray EXCEPT ![idx + 1] = newVal * GrayUnit],
         data |-> setBWPixel(st.data, idx, newVal),
         err |-> oldVal - newVal * GrayUnit]

\* the body of the inner loop up to setBWPixel, for the v-th pass
QuantizePixel(st, width, threshold, serpentine, edgeMap, v) ==
    LET y == v \div width
        x == ScanX(width, serpentine, v)
        idx == y * width + x
        oldVal == st.gray[idx + 1]
        adjustedThreshold == threshold * GrayUnit - EdgeTerm(edgeMap, idx, 20)
        newVal == Quantize(oldVal, adjustedThreshold)
    IN  [gray |-> [st.gray EXCEPT ![idx + 1] = newVal * GrayUnit],
         data |-> setBWPixel(st.data, idx, newVal),
         err |-> oldVal - newVal * GrayUnit]

\* one pass with the kernel never mirrored
VisitPixelUnmirrored(st, width, height, threshold, serpentine, edgeMap, kernel, v) ==
    LET y == v \div width
        x == ScanX(width, serpentine, v)
        q == QuantizePixel(st, width, threshold, serpentine, edgeMap, v)
    IN  [gray |-> ApplyKernel(q.gray, width, height, x, y, 1, q.err, kernel, 1),
         data |-> q.data]

\* one pass through the inner loop
VisitPixel(st, width, height, threshold, serpentine, edgeMap, kernel, v) ==
    LET y == v \div width
        x == ScanX(width, serpentine, v)
        q == QuantizePixel(st, width, threshold, serpentine, edgeMap, v)
    IN  [gray |-> ApplyKernel(q.gray, width, height, x, y,
                              ScanDirection(serpentine, y), q.err, kernel, 1),
         data |-> q.data]

RECURSIVE Diffuse(_, _, _, _, _, _, _, _)
Diffuse(st, width, height, threshold, serpentine, edgeMap, kernel, v) ==
    IF v >= Len(st.gray) THEN st
    ELSE Diffuse(VisitPixel(st, width, height, threshold, serpentine, edgeMap, kernel, v),
                 width, height, threshold, serpentine, edgeMap, kernel, v + 1)

\* a call that returned imgData, and a call that threw leaving imgData behind
Returned(imgData, d) ==
    [ok |-> TRUE, image |-> [width |-> imgData.width, height |-> imgData.height, data |-> d]]

Threw(imgData, d) ==
    [ok |-> FALSE, image |-> [width |-> imgData.width, height |-> imgData.height, data |-> d]]

\* ditherImageData(imgData, algorithm, threshold, brightness, contrast, noise,
\* serpentine, edgeMap).  rnd are the Math.random() draws of the tone-adjust
\* loop and noiseMap[idx + 1] is the entry of generateBlueNoiseMap(64) that
\* pixel idx reads.
ditherImageData(imgData, algorithm, threshold, brightness, contrast, noise, serpentine, edgeMap, rnd, noiseMap) ==
    LET width == imgData.width
        height == imgData.height
        gray == GrayField(imgData, brightness, contrast, noise, rnd)
    IN  IF algorithm = "threshold"
        THEN Returned(imgData,
                 [p \in 1..(width * height) |->
                     setBWPixel(imgData.data, p - 1,
                                Quantize(gray[p],
                                         threshold * GrayUnit - EdgeTerm(edgeMap, p - 1, 30)))[p]])
        ELSE IF algorithm = "blue_noise"
        THEN Returned(imgData,
                 [p \in 1..(width * height) |->
                     setBWPixel(imgData.data, p - 1,
                                Quantize(gray[p],
                                         noiseMap[p] * GrayUnit - EdgeTerm(edgeMap, p - 1, 40)))[p]])
        ELSE IF startsWithOrdered(algorithm)
        THEN LET matrix == OrderedMatrix(algorithm)
                 n == Len(matrix)
             IN  Returned(imgData,
                     [p \in 1..(width * height) |->
                         LET x == (p - 1) % width
                             y == (p - 1) \div width
                             \* gray < (matrix[y % n][x % n] + 0.5) * 255 / (n * n) - edge
                             val == Quantize((gray[p] + EdgeTerm(edgeMap, p - 1, 40)) * 2 * n * n,
                                             (2 * matrix[(y % n) + 1][(x % n) + 1] + 1) * 255 * GrayUnit)
                         IN  setBWPixel(imgData.data, p - 1, val)[p]])
        ELSE LET kernel == KernelFor(algorithm)
                 st0 == [gray |-> gray, data |-> imgData.data]
             IN  IF ~kernel.iterable
                 THEN \* the first pass writes its pixel, then for ... of throws
                      Threw(imgData,
                            QuantizePixel(st0, width, threshold, serpentine, edgeMap, 0).data)
                 ELSE Returned(imgData,
                               Diffuse(st0, width, height, threshold, serpentine,
                                       edgeMap, kernel.entries, 0).data)

(***************************************************************************)
(* Calls of ditherImageData.  DitherAgain calls it on the buffer the       *)
(* previous call returned (the first time on the caller's buffer);         *)
(* DitherCopy calls it with the same arguments on a copy of the caller's   *)
(* buffer.                                                                 *)
(***************************************************************************)
DitherCall(imgData, algorithm, threshold, brightness, contrast, noise, serpentine, edgeMap) ==
    [fn |-> "ditherImageData", imgData |-> imgData, algorithm |-> algorithm,
     threshold |-> threshold, brightness |-> brightness, contrast |-> contrast,
     noise |-> noise, serpentine |-> serpentine, edgeMap |-> edgeMap]

\* the outcomes of the random source during one call: rnd is what
\* Math.random() returns to the tone-adjust loop, in thousandths (the loop
\* draws only when noise > 0), and noiseMap is what generateBlueNoiseMap(64)
\* returns on the cells the image reads (only "blue_noise" generates it)
RandomOutcomes(c) ==
    LET n == Len(c.imgData.data) IN
    { [rnd |-> [p \in 1..n |-> 999], noiseMap |-> [p \in 1..n |-> 255]],
      [rnd |-> [p \in 1..n |-> IF p % 2 = 1 THEN 0 ELSE 999],
       noiseMap |-> [p \in 1..n |-> (p * 64) % 256]] }

Dither(imgData, rnd, noiseMap) ==
    ditherImageData(imgData, call.algorithm, call.threshold, call.brightness,
                    call.contrast, call.noise, call.serpentine, call.edgeMap,
                    rnd, noiseMap)

DitherAgain ==
    /\ call.fn = "ditherImageData"
    /\ Len(runs) < 2
    /\ runs # <<>> => runs[Len(runs)].ok
    /\ \E r \in RandomOutcomes(call) :
          runs' = Append(runs,
                         Dither(IF runs = <<>> THEN call.imgData
                                ELSE runs[Len(runs)].image, r.rnd, r.noiseMap))
    /\ UNCHANGED <<call, copies>>
    /\ UNCHANGED transportVars
    /\ UNCHANGED editorVars

DitherCopy ==
    /\ call.fn = "ditherImageData"
    /\ Len(copies) < 1
    /\ \E r \in RandomOutcomes(call) :
          copies' = Append(copies, Dither(call.imgData, r.rnd, r.noiseMap))
    /\ UNCHANGED <<call, runs>>
    /\ UNCHANGED transportVars
    /\ UNCHANGED editorVars

NextDither == DitherAgain \/ DitherCopy

\* test pictures
PatternRGBA(pat, p) ==
    CASE pat = "white" -> <<255, 255, 255, 255>>
      [] pat = "black" -> <<0, 0, 0, 255>>
      [] pat = "mid" -> IF p % 2 = 1 THEN <<127, 127, 127, 255>> ELSE <<128, 128, 128, 255>>
      [] pat = "gradient" -> LET g == ((p - 1) * 61 + 7) % 256 IN <<g, g, g, 255>>
      [] OTHER -> <<(p * 97) % 256, (p * 31 + 200) % 256, (p * 173 + 5) % 256, (p * 85) % 256>>

PatternImage(w, h, pat) ==
    [width |-> w, height |-> h, data |-> [p \in 1..(w * h) |-> PatternRGBA(pat, p)]]

\* an edge map with strong, absent and medium edges
PatternEdgeMap(n) == [p \in 1..n |-> CASE p % 3 = 1 -> 255 [] p % 3 = 2 -> 0 [] OTHER -> 128]

EdgeMaps(imgData) == {null, PatternEdgeMap(Len(imgData.data))}

Shapes == { <<MaxSide, 1>>, <<2, MaxSide>>, <<MaxSide, MaxSide>> }

DitherImages ==
    { PatternImage(sh[1], sh[2], pat) : sh \in Shapes, pat \in {"mid", "gradient", "colour"} }

ErrorDiffusionNames == {"floyd", "atkinson", "stucki", "jarvis", "sierra", "burkes"}

RecognisedNames ==
    {"threshold", "blue_noise", "ordered2", "ordered4", "ordered8"} \cup ErrorDiffusionNames

UnrecognisedNames == {"two_phase", "sobel", "ordered3", "constructor"}

\* <<brightness, contrast, noise>>
ToneSettings == { <<0, 0, 0>>, <<50, 0, 0>>, <<0, 50, 0>>, <<-30, -50, 0>>, <<0, 0, 50>> }

TransportIdle ==
    /\ variant = "beta"
    /\ canvas = MakeCanvas(8, 1, "white")
    /\ thresholdInput = NaN
    /\ pendingSubmits = 0
    /\ InitJobs

InitDither ==
    /\ TransportIdle
    /\ \E imgData \in DitherImages,
          algorithm \in RecognisedNames \cup UnrecognisedNames,
          threshold \in {0, 128, 255},
          tone \in ToneSettings,
          serpentine \in BOOLEAN :
          \E edgeMap \in EdgeMaps(imgData) :
             call = DitherCall(imgData, algorithm, threshold, tone[1], tone[2], tone[3],
                               serpentine, edgeMap)
    /\ runs = <<>>
    /\ copies = <<>>
    /\ EditorIdle

SpecDither == InitDither /\ [][NextDither]_vars

\* the threshold algorithm at every threshold, on gray fields
InitThreshold ==
    /\ TransportIdle
    /\ \E imgData \in { PatternImage(sh[1], sh[2], pat) :
                            sh \in Shapes, pat \in {"mid", "gradient", "white", "black"} },
          threshold \in 0..255,
          tone \in { t \in ToneSettings : t[3] = 0 } :
          \E edgeMap \in EdgeMaps(imgData) :
             call = DitherCall(imgData, "threshold", threshold, tone[1], tone[2], 0,
                               TRUE, edgeMap)
    /\ runs = <<>>
    /\ copies = <<>>
    /\ EditorIdle

SpecThreshold == InitThreshold /\ [][DitherAgain]_vars

\* error diffusion of the all-white and the all-black field, at every
\* threshold and size
InitUniform ==
    /\ TransportIdle
    /\ \E w \in 1..MaxSide, h \in 1..MaxSide, pat \in {"white", "black"},
          algorithm \in ErrorDiffusionNames,
          threshold \in 0..255,
          serpentine \in BOOLEAN :
             call = DitherCall(PatternImage(w, h, pat), algorithm, threshold, 0, 0, 0,
                               serpentine, null)
    /\ runs = <<>>
    /\ copies = <<>>
    /\ EditorIdle

NextUniform == runs = <<>> /\ DitherAgain

SpecUniform == InitUniform /\ [][NextUniform]_vars

(***************************************************************************)
(* applyHardwareCleanup.  The repository has two versions of it: the one   *)
(* of src/index.js (also in src/experimental/index.js) and the one of      *)
(* src/unnamed/part_001.                                                   *)
(***************************************************************************)
CleanupCopies == {"index.js", "part_001"}

\* data[(y * width + x) * 4], the red byte of pixel (x, y)
Red(imgData, x, y) == imgData.data[y * imgData.width + x + 1][1]

\* number of the 8 neighbours of (x, y) whose red byte is 0
blackNeighbors(imgData, x, y) ==
    Cardinality({ d \in (-1..1) \X (-1..1) :
                    /\ d # <<0, 0>>
                    /\ Red(imgData, x + d[1], y + d[2]) = 0 })

\* the loop body stores nothing for the pixel
Keep == -1

\* the value stored to output for interior pixel (x, y), or Keep
CleanupStore(copy, imgData, x, y) ==
    LET width == imgData.width
        height == imgData.height
    IN  IF Red(imgData, x, y) = 0
        THEN (IF blackNeighbors(imgData, x, y) = 0 THEN 255 ELSE Keep)
        ELSE IF copy = "index.js"
        THEN (IF Red(imgData, x, y) = 255
              THEN LET leftBlack == x > 0 /\ Red(imgData, x - 1, y) = 0
                       rightBlack == x < width - 1 /\ Red(imgData, x + 1, y) = 0
                       topWhite == y > 0 /\ Red(imgData, x, y - 1) = 255
                       bottomWhite == y < height - 1 /\ Red(imgData, x, y + 1) = 255
                       topBlack == y > 0 /\ Red(imgData, x, y - 1) = 0
                       bottomBlack == y < height - 1 /\ Red(imgData, x, y + 1) = 0
                       leftWhite == x > 0 /\ Red(imgData, x - 1, y) = 255
                       rightWhite == x < width - 1 /\ Red(imgData, x + 1, y) = 255
                   IN  IF \/ (leftBlack /\ rightBlack /\ topWhite /\ bottomWhite)
                          \/ (topBlack /\ bottomBlack /\ leftWhite /\ rightWhite)
                       THEN 0 ELSE Keep
              ELSE Keep)
        ELSE LET top == Red(imgData, x, y - 1) = 0
                 bot == Red(imgData, x, y + 1) = 0
                 left == Red(imgData, x - 1, y) = 0
                 right == Red(imgData, x + 1, y) = 0
             IN  IF (top /\ bot) \/ (left /\ right) THEN 0 ELSE Keep

\* applyHardwareCleanup(imgData): every test reads data, every store goes to
\* the copy output, and data.set(output) ends the call
applyHardwareCleanup(copy, imgData) ==
    [imgData EXCEPT !.data =
        [p \in 1..Len(imgData.data) |->
            LET x == (p - 1) % imgData.width
                y == (p - 1) \div imgData.width
                px == imgData.data[p]
            IN  IF x >= 1 /\ x < imgData.width - 1 /\ y >= 1 /\ y < imgData.height - 1
                THEN LET store == CleanupStore(copy, imgData, x, y)
                     IN  IF store = Keep THEN px ELSE <<store, store, store, px[4]>>
                ELSE px]]

CleanupCall(copy, imgData) ==
    [fn |-> "applyHardwareCleanup", copy |-> copy, imgData |-> imgData]

Cleanup ==
    /\ call.fn = "applyHardwareCleanup"
    /\ runs = <<>>
    /\ runs' = <<Returned(call.imgData, applyHardwareCleanup(call.copy, call.imgData).data)>>
    /\ UNCHANGED <<call, copies>>
    /\ UNCHANGED transportVars
    /\ UNCHANGED editorVars

\* every black/white image of MaxSide x 3 pixels
BWImages ==
    { [width |-> MaxSide, height |-> 3,
       data |-> [p \in 1..(3 * MaxSide) |->
                   IF Bit(n, p - 1) = 1 THEN <<0, 0, 0, 255>> ELSE <<255, 255, 255, 255>>]] :
      n \in 0..(2 ^ (3 * MaxSide) - 1) }

InitCleanup ==
    /\ TransportIdle
    /\ \E copy \in CleanupCopies, imgData \in BWImages : call = CleanupCall(copy, imgData)
    /\ runs = <<>>
    /\ copies = <<>>
    /\ EditorIdle

SpecCleanup == InitCleanup /\ [][Cleanup]_vars

(***************************************************************************)
(* processImageWithAdjustments: which stage functions a call runs, and in  *)
(* which order.  A stage is named after the function the call invokes.     *)
(***************************************************************************)
\* the sequence s with stage added when cond holds
Then(s, cond, stage) == IF cond THEN Append(s, stage) ELSE s

\* the body with the CLAHE statement placed before the gamma statement
StagesRunClaheFirst(rotation, algorithm, o) ==
    LET s1 == Then(<<>>, rotation # 0, "rotateImage")
        s2 == Then(s1, o.usePrinterResolution, "scaleToExactResolution")
        s3 == Then(s2, o.useCLAHE, "applyCLAHE")
        s4 == Then(s3, o.useGammaCorrection, "applyGammaCorrection")
        s5 == Then(s4, o.usePreFiltering, "applyGaussianBlur")
        s6 == Then(s5, o.usePreFiltering, "applyUnsharpMask")
        s7 == Then(s6, o.useEdgeAware, "detectEdges")
        s8 == IF algorithm = "two_phase"
              THEN Append(s7, "applyTwoPhaseDiffusion")
              ELSE Append(s7, "ditherImageData")
    IN  Then(s8, o.useHardwareCleanup, "applyHardwareCleanup")

\* the calls made by the body of processImageWithAdjustments, in program order
StagesRun(rotation, algorithm, o) ==
    LET s1 == Then(<<>>, rotation # 0, "rotateImage")
        s2 == Then(s1, o.usePrinterResolution, "scaleToExactResolution")
        s3 == Then(s2, o.useGammaCorrection, "applyGammaCorrection")
        s4 == Then(s3, o.useCLAHE, "applyCLAHE")
        s5 == Then(s4, o.usePreFiltering, "applyGaussianBlur")
        s6 == Then(s5, o.usePreFiltering, "applyUnsharpMask")
        s7 == Then(s6, o.useEdgeAware, "detectEdges")
        s8 == IF algorithm = "two_phase"
              THEN Append(s7, "applyTwoPhaseDiffusion")
              ELSE Append(s7, "ditherImageData")
    IN  Then(s8, o.useHardwareCleanup, "applyHardwareCleanup")

AdvancedOptions ==
    [useGammaCorrection : BOOLEAN, usePreFiltering : BOOLEAN, useCLAHE : BOOLEAN,
     useEdgeAware : BOOLEAN, useHardwareCleanup : BOOLEAN, usePrinterResolution : BOOLEAN]

PipelineCall(rotation, algorithm, o) ==
    [fn |-> "processImageWithAdjustments", rotation |-> rotation,
     algorithm |-> algorithm, options |-> o]

ProcessImage ==
    /\ call.fn = "processImageWithAdjustments"
    /\ runs = <<>>
    /\ runs' = <<[ok |-> TRUE,
                  stages |-> StagesRun(call.rotation, call.algorithm, call.options)]>>
    /\ UNCHANGED <<call, copies>>
    /\ UNCHANGED transportVars
    /\ UNCHANGED editorVars

InitPipeline ==
    /\ TransportIdle
    /\ \E rotation \in {0, 90, 360}, algorithm \in {"floyd", "ordered4", "two_phase"},
          o \in AdvancedOptions :
             call = PipelineCall(rotation, algorithm, o)
    /\ runs = <<>>
    /\ copies = <<>>
    /\ EditorIdle

SpecPipeline == InitPipeline /\ [][ProcessImage]_vars

\* ---------------------------------------------------------------------------
\* The label editor: the input handlers updateLabelSize and updateCanvasText,
\* in the copy of index.js (asynchronous updateCanvasText with code
\* generation) and in the copy of unnamed/part_000 (synchronous, text tab).
\* No image is uploaded, so the image branch of updateCanvasText is not taken
\* and processedImage keeps its value.  The canvas is held as its dimensions
\* and what was last drawn on it.
\* ---------------------------------------------------------------------------
MaxUpdates == 3

EditorCopies == {"index.js", "part_000"}

\* valueAsNumber of the #inputWidth / #inputHeight elements
DimensionInputs == {NaN, 0, 40, 50}

\* valueAsNumber of the #inputFontSize element
FontSizeInputs == {NaN, 12, 20}

CodeTypes == {"none", "qr"}

\* #codeData: empty, or a payload
CodeDatas == {"", "A"}

isNaN(v) == v = NaN

canvasScale(copy) == IF copy = "part_000" THEN 16 ELSE 8

\* the program state an update works on, with the handlers that returned
\* during the current step
Editor ==
    [labelSize |-> labelSize, canvas |-> canvas, generatedCode |-> generatedCode,
     processedImage |-> processedImage, reported |-> reported,
     pending |-> pending, done |-> <<>>]

Globals(s) ==
    [labelSize |-> s.labelSize, canvas |-> s.canvas,
     generatedCode |-> s.generatedCode, processedImage |-> s.processedImage]

\* the names of the globals whose value differs between a and b
Changed(a, b) ==
    {n \in {"labelSize", "canvas", "generatedCode", "processedImage"} : a[n] # b[n]}

\* the frame of a handler call: the inputs it read, the state in which it
\* started (or resumed), the globals it changed before it was suspended, the
\* number of reports before it started and what it did before its check
Frame(s, fn, inputs) ==
    [fn |-> fn, inputs |-> inputs, before |-> Globals(s), changed |-> {},
     reportsBefore |-> Len(s.reported), work |-> <<>>]

\* the handler of frame f is suspended in state s
Suspend(s, f) ==
    [s EXCEPT !.pending = Append(@,
        [f EXCEPT !.changed = @ \cup Changed(f.before, Globals(s))])]

\* the handler of frame f resumes in state s
Resume(s, f) == [f EXCEPT !.before = Globals(s)]

handleError(s, message) == [s EXCEPT !.reported = Append(@, message)]

\* the handler of frame f returns in state s
Return(s, f) ==
    [s EXCEPT !.done = Append(@,
        [fn |-> f.fn, inputs |-> f.inputs,
         changed |-> f.changed \cup Changed(f.before, Globals(s)),
         reports |-> SubSeq(s.reported, f.reportsBefore + 1, Len(s.reported)),
         workBeforeCheck |-> f.work])]

\* the canvas after its width and height were assigned
Blank == [drawn |-> FALSE, fontSize |-> NaN, code |-> "null"]

\* fillRect of the whole canvas and the drawing of the text and of the code
DrawLabel(s, fontSize) ==
    [s EXCEPT !.canvas.content =
                  [drawn |-> TRUE, fontSize |-> fontSize, code |-> s.generatedCode]]

\* updateCanvasText of index.js from the font size check on
updateCanvasTextRest(s, f) ==
    IF isNaN(f.inputs.fontSize)
    THEN Return(handleError(s, "font size invalid"), f)
    ELSE Return(DrawLabel(s, f.inputs.fontSize), f)

\* updateCanvasText up to its first suspension or its return
updateCanvasText(copy, s, d) ==
    LET f == Frame(s, "updateCanvasText", [fontSize |-> d.inputFontSize,
                                           codeData |-> d.codeData])
    IN  IF copy = "part_000"
        THEN Return(DrawLabel(s, d.inputFontSize), f)
        ELSE IF d.codeType # "none" /\ d.codeData # ""
        THEN Suspend(s, [f EXCEPT !.work = <<"await generateCode">>])
        ELSE updateCanvasTextRest([s EXCEPT !.generatedCode = "null"],
                                  [f EXCEPT !.work = <<"generatedCode = null">>])

\* the label dimensions updateLabelSize refuses
Rejects(copy, inputWidth, inputHeight) ==
    \/ isNaN(inputWidth) \/ isNaN(inputHeight)
    \/ copy = "part_000" /\ (inputWidth <= 0 \/ inputHeight <= 0)

updateLabelSize(copy, s, d) ==
    LET f == Frame(s, "updateLabelSize", [inputWidth |-> d.inputWidth,
                                          inputHeight |-> d.inputHeight])
    IN  IF Rejects(copy, d.inputWidth, d.inputHeight)
        THEN Return(handleError(s, "label size invalid"), f)
        ELSE LET sized == [s EXCEPT
                     !.labelSize = [width |-> d.inputWidth, height |-> d.inputHeight],
                     !.canvas = [width |-> d.inputHeight * canvasScale(copy),
                                 height |-> d.inputWidth * canvasScale(copy),
                                 content |-> Blank]]
             IN  Return(updateCanvasText(copy, sized, d), f)

\* the step ends in state s
Store(s) ==
    /\ labelSize' = s.labelSize
    /\ canvas' = s.canvas
    /\ generatedCode' = s.generatedCode
    /\ processedImage' = s.processedImage
    /\ reported' = s.reported
    /\ pending' = s.pending
    /\ runs' = s.done

EditorCall(copy, n) == [fn |-> "editor", copy |-> copy, updates |-> n]

InputEvent ==
    /\ call.fn = "editor"
    /\ call.updates < MaxUpdates
    /\ call' = [call EXCEPT !.updates = @ + 1]

\* what the editor handlers never touch
printVars == <<variant, thresholdInput, pendingSubmits, submitted, pc, data, i,
               inflight, log, errorCalls, copies>>

\* input event of #inputWidth or #inputHeight
InputLabelSize ==
    /\ InputEvent
    /\ \E w \in DimensionInputs, h \in DimensionInputs :
          /\ dom' = [dom EXCEPT !.inputWidth = w, !.inputHeight = h]
          /\ \/ w = dom.inputWidth
             \/ h = dom.inputHeight
          /\ Store(updateLabelSize(call.copy, Editor, dom'))
    /\ UNCHANGED printVars

\* input event of #inputFontSize
InputFontSize ==
    /\ InputEvent
    /\ \E v \in FontSizeInputs :
          /\ dom' = [dom EXCEPT !.inputFontSize = v]
          /\ Store(updateCanvasText(call.copy, Editor, dom'))
    /\ UNCHANGED printVars

\* change event of #codeType or input event of #codeData (index.js only)
InputCode ==
    /\ InputEvent
    /\ call.copy = "index.js"
    /\ \E t \in CodeTypes, c \in CodeDatas :
          /\ dom' = [dom EXCEPT !.codeType = t, !.codeData = c]
          /\ \/ t = dom.codeType
             \/ c = dom.codeData
          /\ Store(updateCanvasText(call.copy, Editor, dom'))
    /\ UNCHANGED printVars

RemoveAt(seq, k) == SubSeq(seq, 1, k - 1) \o SubSeq(seq, k + 1, Len(seq))

\* the promise of generateCode settles for one suspended updateCanvasText:
\* with the code canvas, or rejected (the catch block stores null)
CodeSettled ==
    /\ call.fn = "editor"
    /\ \E k \in 1..Len(pending), fulfilled \in BOOLEAN :
          LET f == Resume(Editor, pending[k])
              s == [Editor EXCEPT
                       !.pending = RemoveAt(@, k),
                       !.generatedCode = IF fulfilled
                                         THEN f.inputs.codeData
                                         ELSE "null"]
          IN  Store(updateCanvasTextRest(s, f))
    /\ UNCHANGED <<call, dom>>
    /\ UNCHANGED printVars

NextEditor == InputLabelSize \/ InputFontSize \/ InputCode \/ CodeSettled

\* the page after DOMContentLoaded: updateLabelSize has run once with the
\* values the inputs hold
InitEditor ==
    /\ variant = "beta"
    /\ thresholdInput = NaN
    /\ pendingSubmits = 0
    /\ InitJobs
    /\ copies = <<>>
    /\ runs = <<>>
    /\ \E copy \in EditorCopies : call = EditorCall(copy, 0)
    /\ \E w \in {40, 50}, f \in {12, 20} :
          /\ dom = [inputWidth |-> w, inputHeight |-> 12, inputFontSize |-> f,
                    codeType |-> "none", codeData |-> ""]
          /\ labelSize = [width |-> w, height |-> 12]
          /\ canvas = [width |-> 12 * canvasScale(call.copy),
                       height |-> w * canvasScale(call.copy),
                       content |-> [drawn |-> TRUE, fontSize |-> f,
                                    code |-> "null"]]
    /\ generatedCode = "null"
    /\ processedImage = "null"
    /\ reported = <<>>
    /\ pending = <<>>

SpecEditor == InitEditor /\ [][NextEditor]_vars

(***************************************************************************)
(* The error diffusion loop of ditherImageData pass by pass.  runs[1] is   *)
(* the loop's state: v passes are done, gray and data are the buffers,     *)
(* order lists the pixel indices of the passes, cur and changed are the    *)
(* pixel of the last pass and the pixels whose gray value its kernel loop  *)
(* changed.                                                                *)
(***************************************************************************)
DiffusionCall(imgData, algorithm, threshold, serpentine, edgeMap) ==
    [fn |-> "errorDiffusion", imgData |-> imgData, algorithm |-> algorithm,
     threshold |-> threshold, serpentine |-> serpentine, edgeMap |-> edgeMap]

LoopState(v, st, order, changed) ==
    [v |-> v, gray |-> st.gray, data |-> st.data, order |-> order, changed |-> changed]

\* one pass through the inner loop of lines 420-444
DiffusionPass ==
    /\ call.fn = "errorDiffusion"
    /\ LET width == call.imgData.width
           height == call.imgData.height
           s == runs[1]
           st == [gray |-> s.gray, data |-> s.data]
           q == QuantizePixel(st, width, call.threshold, call.serpentine,
                              call.edgeMap, s.v)
           next == VisitPixel(st, width, height, call.threshold, call.serpentine,
                              call.edgeMap, KernelFor(call.algorithm).entries, s.v)
           idx == (s.v \div width) * width + ScanX(width, call.serpentine, s.v)
       IN  /\ s.v < width * height
           /\ runs' = << LoopState(s.v + 1, next, Append(s.order, idx),
                                   {p \in 1..(width * height) : next.gray[p] # q.gray[p]}) >>
    /\ UNCHANGED <<call, copies>>
    /\ UNCHANGED transportVars
    /\ UNCHANGED editorVars

InitDiffusion ==
    /\ TransportIdle
    /\ \E imgData \in DitherImages,
          algorithm \in ErrorDiffusionNames,
          threshold \in {64, 128, 200},
          serpentine \in BOOLEAN :
          \E edgeMap \in EdgeMaps(imgData) :
             /\ call = DiffusionCall(imgData, algorithm, threshold, serpentine, edgeMap)
             /\ runs = << LoopState(0, [gray |-> GrayField(imgData, 0, 0, 0, <<>>),
                                        data |-> imgData.data], <<>>, {}) >>
    /\ copies = <<>>
    /\ EditorIdle

SpecDiffusion == InitDiffusion /\ [][DiffusionPass]_vars

(***************************************************************************)
(* generateBlueNoiseMap(size), one candidate draw per step.  runs[1] is    *)
(* the state of the loops: i and attempt are the loop counters, placed     *)
(* lists the bestIdx of the iterations done.  Distances are compared by    *)
(* their squares; Infinity stands for the minDist of a candidate when no   *)
(* cell is used yet.                                                       *)
(***************************************************************************)
NoiseMapSizes == {1, 2}

Infinity == 1000000

Min(a, b) == IF a < b THEN a ELSE b

\* the square of the distance between cells a and b
CellDist(size, a, b) ==
    ((a % size) - (b % size)) * ((a % size) - (b % size))
  + ((a \div size) - (b \div size)) * ((a \div size) - (b \div size))

\* minDist of the candidate after the loop over j
MinDist(size, used, candidate) ==
    LET ds == { CellDist(size, candidate, j) : j \in { k \in 0..(size * size - 1) : used[k + 1] } }
    IN  IF ds = {} THEN Infinity ELSE CHOOSE d \in ds : \A e \in ds : d <= e

NoiseLoop(rank, attempt, bestDist, bestIdx, used, map, placed) ==
    [i |-> rank, attempt |-> attempt, bestDist |-> bestDist, bestIdx |-> bestIdx,
     used |-> used, map |-> map, placed |-> placed]

\* one pass of the attempt loop: const candidate = Math.floor(Math.random() * size * size)
DrawCandidate ==
    /\ call.fn = "generateBlueNoiseMap"
    /\ LET s == runs[1]
           n == call.size * call.size
       IN  /\ s.i < n
           /\ s.attempt < Min(100, n - s.i)
           /\ \E candidate \in 0..(n - 1) :
                 LET minDist == MinDist(call.size, s.used, candidate)
                     better == ~s.used[candidate + 1] /\ minDist > s.bestDist
                 IN  runs' = << [s EXCEPT !.attempt = @ + 1,
                                          !.bestDist = IF better THEN minDist ELSE @,
                                          !.bestIdx = IF better THEN candidate ELSE @] >>
    /\ UNCHANGED <<call, copies>>
    /\ UNCHANGED transportVars
    /\ UNCHANGED editorVars

\* the end of iteration i: used[bestIdx] = true; map[bestIdx] = floor(i / n * 256),
\* and the start of iteration i + 1: bestDist = -1, bestIdx = 0
PlaceCell ==
    /\ call.fn = "generateBlueNoiseMap"
    /\ LET s == runs[1]
           n == call.size * call.size
       IN  /\ s.i < n
           /\ s.attempt = Min(100, n - s.i)
           /\ runs' = << NoiseLoop(s.i + 1, 0, -1, 0,
                                   [s.used EXCEPT ![s.bestIdx + 1] = TRUE],
                                   [s.map EXCEPT ![s.bestIdx + 1] = (s.i * 256) \div n],
                                   Append(s.placed, s.bestIdx)) >>
    /\ UNCHANGED <<call, copies>>
    /\ UNCHANGED transportVars
    /\ UNCHANGED editorVars

NextBlueNoise == DrawCandidate \/ PlaceCell

InitBlueNoise ==
    /\ TransportIdle
    /\ \E size \in NoiseMapSizes :
          /\ call = [fn |-> "generateBlueNoiseMap", size |-> size]
          /\ runs = << NoiseLoop(0, 0, -1, 0, [k \in 1..(size * size) |-> FALSE],
                                 [k \in 1..(size * size) |-> 0], <<>>) >>
    /\ copies = <<>>
    /\ EditorIdle

SpecBlueNoise == InitBlueNoise /\ [][NextBlueNoise]_vars

(***************************************************************************)
(* The preview rotation buttons beside label edits and printing, in the    *)
(* copies of experimental/index.js and unnamed/part_001.  Two runs of the  *)
(* page, runs[1] and runs[2], receive the same label inputs and the same   *)
(* print requests; each receives rotation clicks of its own.  A print      *)
(* request is taken up to the bytes printCanvas computes for the header    *)
(* and the payload.                                                        *)
(***************************************************************************)
PreviewCopies == {"experimental", "part_001"}

\* the label settings a run can enter: width and height of the canvas and
\* the picture drawn
LabelInputs ==
    { [w |-> 8, h |-> 1, pat |-> "counter"],
      [w |-> 8, h |-> 2, pat |-> "black"],
      [w |-> 16, h |-> 1, pat |-> "counter"] }

\* a % b of JavaScript: the sign of the result is the sign of a
JsRem(a, b) == IF a >= 0 THEN a % b ELSE -((-a) % b)

\* #rotateClockwise click: previewRotation = (previewRotation + 90) % 360
RotatedClockwise(previewRotation) == JsRem(previewRotation + 90, 360)

\* #rotateCounterClockwise click
RotatedCounterClockwise(previewRotation) ==
    IF previewRotation - 90 <= -360 THEN previewRotation - 90 + 360
    ELSE previewRotation - 90

\* what the click handlers leave on the page: the rotation class of the card
\* (experimental: updateRotationButtons), the transform of the preview
\* container and the rotated-90-270 class of the canvas element (part_001:
\* updatePreviewRotation)
PreviewStyle(copy, previewRotation) ==
    LET normalizedRotation == (JsRem(previewRotation, 360) + 360) % 360 IN
    IF copy = "experimental"
    THEN [cardClass |-> CASE normalizedRotation = 90 -> "rotate-90"
                          [] normalizedRotation = 180 -> "rotate-180"
                          [] normalizedRotation = 270 -> "rotate-270"
                          [] OTHER -> "",
          transform |-> 0, rotated90 |-> FALSE]
    ELSE [cardClass |-> "", transform |-> previewRotation,
          rotated90 |-> (previewRotation = 90 \/ previewRotation = -90)]

\* the third argument of printCanvas: part_001 passes { offsetX, offsetY,
\* rotation: previewRotation }, experimental passes nothing
NoOptions == [rotation |-> NaN]

PrintOptions(copy, previewRotation) ==
    IF copy = "part_001" THEN [rotation |-> previewRotation] ELSE NoOptions

Reversed(s) == [k \in 1..Len(s) |-> s[Len(s) + 1 - k]]

\* a printCanvas that sends the payload upside down when options.rotation is 180
PrintedBytes180(v, c, t, options) ==
    LET d == getPrintData(v, c, t) IN
    [header |-> printCanvasHeader(c, d),
     payload |-> IF options.rotation = 180 THEN Reversed(d) ELSE d]

\* printCanvas(characteristic, canvas, options): the header and the payload
PrintedBytes(v, c, t, options) ==
    LET d == getPrintData(v, c, t) IN
    [header |-> printCanvasHeader(c, d), payload |-> d]

PageRun(c, previewRotation, style, printed) ==
    [canvas |-> c, previewRotation |-> previewRotation, style |-> style,
     printed |-> printed]

RotateClockwise(r) ==
    /\ call.fn = "preview"
    /\ runs' = [runs EXCEPT ![r] =
                  [@ EXCEPT !.previewRotation = RotatedClockwise(@),
                            !.style = PreviewStyle(call.copy,
                                          RotatedClockwise(runs[r].previewRotation))]]
    /\ UNCHANGED <<call, copies>>
    /\ UNCHANGED transportVars
    /\ UNCHANGED editorVars

RotateCounterClockwise(r) ==
    /\ call.fn = "preview"
    /\ runs' = [runs EXCEPT ![r] =
                  [@ EXCEPT !.previewRotation = RotatedCounterClockwise(@),
                            !.style = PreviewStyle(call.copy,
                                          RotatedCounterClockwise(runs[r].previewRotation))]]
    /\ UNCHANGED <<call, copies>>
    /\ UNCHANGED transportVars
    /\ UNCHANGED editorVars

\* a label input event in both runs: the canvas is sized and redrawn
LabelEdited ==
    /\ call.fn = "preview"
    /\ \E l \in LabelInputs :
          runs' = [r \in 1..2 |-> [runs[r] EXCEPT !.canvas = MakeCanvas(l.w, l.h, l.pat)]]
    /\ UNCHANGED <<call, copies>>
    /\ UNCHANGED transportVars
    /\ UNCHANGED editorVars

\* a form submit in both runs, up to the call of printCanvas
LabelPrinted ==
    /\ call.fn = "preview"
    /\ Len(runs[1].printed) < MaxJobs
    /\ runs' = [r \in 1..2 |->
                  [runs[r] EXCEPT !.printed =
                      Append(@, PrintedBytes(variant, runs[r].canvas, thresholdInput,
                                             PrintOptions(call.copy, runs[r].previewRotation)))]]
    /\ UNCHANGED <<call, copies>>
    /\ UNCHANGED transportVars
    /\ UNCHANGED editorVars

NextPreview ==
    \/ \E r \in 1..2 : RotateClockwise(r)
    \/ \E r \in 1..2 : RotateCounterClockwise(r)
    \/ LabelEdited
    \/ LabelPrinted

\* let previewRotation = -90
InitPreview ==
    /\ variant \in PrinterVariants
    /\ canvas = MakeCanvas(8, 1, "white")
    /\ thresholdInput = 128
    /\ pendingSubmits = 0
    /\ InitJobs
    /\ \E copy \in PreviewCopies :
          /\ call = [fn |-> "preview", copy |-> copy]
          /\ runs = [r \in 1..2 |->
                       PageRun(MakeCanvas(8, 1, "counter"), -90,
                               PreviewStyle(copy, -90), <<>>)]
    /\ copies = <<>>
    /\ EditorIdle

SpecPreview == InitPreview /\ [][NextPreview]_vars

(***************************************************************************)
(* applyTwoPhaseDiffusion call by call.  ditherImageData writes into the   *)
(* buffer of the ImageData it is given and returns that object, so the     *)
(* state names the buffers: runs[k].caller is the buffer of the caller's   *)
(* imgData and runs[k].image the object the k-th ditherImageData call      *)
(* returned.                                                               *)
(***************************************************************************)
TwoPhaseCall(imgData, threshold, brightness, contrast, noise, edgeMap) ==
    [fn |-> "applyTwoPhaseDiffusion", imgData |-> imgData, threshold |-> threshold,
     brightness |-> brightness, contrast |-> contrast, noise |-> noise,
     edgeMap |-> edgeMap]

\* phase 1 run on the caller's ImageData itself
Phase1OnCopyNot == FALSE

\* new ImageData(new Uint8ClampedArray(imgData.data), ...): phase 1 gets a copy
Phase1OnCopy == TRUE

\* the threshold of the second call raised by 20
Phase2ThresholdPlus20(threshold) == threshold + 20

\* threshold + 10
Phase2Threshold(threshold) == threshold + 10

\* the first ditherImageData call: ordered4, serpentine false, edge map null
TwoPhaseFirst ==
    /\ call.fn = "applyTwoPhaseDiffusion"
    /\ runs = <<>>
    /\ \E r \in RandomOutcomes(call) :
          LET phase1 == ditherImageData(call.imgData, "ordered4", call.threshold,
                                        call.brightness, call.contrast, call.noise,
                                        FALSE, null, r.rnd, r.noiseMap)
          IN  runs' = << [ok |-> phase1.ok, image |-> phase1.image, rnd |-> r.rnd,
                          caller |-> IF Phase1OnCopy THEN call.imgData.data
                                     ELSE phase1.image.data] >>
    /\ UNCHANGED <<call, copies>>
    /\ UNCHANGED transportVars
    /\ UNCHANGED editorVars

\* the second ditherImageData call, on the object the first returned: floyd,
\* no brightness, contrast or noise, serpentine true, the caller's edge map
TwoPhaseSecond ==
    /\ call.fn = "applyTwoPhaseDiffusion"
    /\ Len(runs) = 1
    /\ LET result == ditherImageData(runs[1].image, "floyd",
                                     Phase2Threshold(call.threshold), 0, 0, 0,
                                     TRUE, call.edgeMap, <<>>, <<>>)
       IN  runs' = Append(runs, [ok |-> result.ok, image |-> result.image,
                                 rnd |-> <<>>, caller |-> runs[1].caller])
    /\ UNCHANGED <<call, copies>>
    /\ UNCHANGED transportVars
    /\ UNCHANGED editorVars

NextTwoPhase == TwoPhaseFirst \/ TwoPhaseSecond

TwoPhaseThresholds == {0, 1, 100, 128, 200, 245, 246, 255}

InitTwoPhase ==
    /\ TransportIdle
    /\ \E imgData \in DitherImages,
          threshold \in TwoPhaseThresholds,
          tone \in ToneSettings :
          \E edgeMap \in EdgeMaps(imgData) :
             call = TwoPhaseCall(imgData, threshold, tone[1], tone[2], tone[3], edgeMap)
    /\ runs = <<>>
    /\ copies = <<>>
    /\ EditorIdle

SpecTwoPhase == InitTwoPhase /\ [][NextTwoPhase]_vars

(***************************************************************************)
(* Print jobs beside label edits: while printCanvas is suspended, an input *)
(* event can resize and redraw the canvas (updateLabelSize sets            *)
(* canvas.width = labelSize.height * 8 and canvas.height =                 *)
(* labelSize.width * 8, so a label height of 12.5 gives a width of 100).   *)
(***************************************************************************)
LiveCanvases ==
    { MakeCanvas(8, 1, "counter"),
      MakeCanvas(8, 129, "counter"),
      MakeCanvas(8, 129, "black"),
      MakeCanvas(100, 1, "black") }

\* an input event sizes and redraws the canvas
CanvasChanged ==
    /\ \E c \in LiveCanvases :
          /\ c # canvas
          /\ canvas' = c
    /\ UNCHANGED <<variant, thresholdInput, pendingSubmits, submitted, pc, data, i,
                   inflight, log, errorCalls>>
    /\ UNCHANGED imagingVars
    /\ UNCHANGED editorVars

NextLive == Next \/ CanvasChanged

InitLive ==
    /\ variant \in PrinterVariants
    /\ canvas \in LiveCanvases
    /\ pendingSubmits = 1
    /\ thresholdInput = 128
    /\ InitJobs
    /\ ImagingIdle

SpecLive == InitLive /\ [][NextLive]_vars

(***************************************************************************)
(* One print job in which every step of the promise chain, every write and *)
(* every pacing timer completes successfully, for payloads of 0, 1, 128,   *)
(* 129, 257 and 1000 bytes (a canvas 4 pixels wide packs to 0 bytes).      *)
(***************************************************************************)
TerminationCanvases ==
    { MakeCanvas(4, 1, "black"),
      MakeCanvas(8, 1, "counter"),
      MakeCanvas(8, 128, "counter"),
      MakeCanvas(8, 129, "counter"),
      MakeCanvas(8, 257, "counter"),
      MakeCanvas(64, 125, "counter") }

NextCompleting ==
    \/ Submit
    \/ \E j \in Jobs : GattSettled(j, TRUE)
    \/ \E j \in Jobs : WriteSettled(j, TRUE)
    \/ \E j \in Jobs : TimerFired(j)

InitCompleting ==
    /\ variant \in PrinterVariants
    /\ canvas \in TerminationCanvases
    /\ pendingSubmits = 1
    /\ thresholdInput = 128
    /\ InitJobs
    /\ ImagingIdle

\* every write and every timer that is pending eventually completes
SpecCompleting ==
    InitCompleting /\ [][NextCompleting]_vars /\ WF_vars(NextCompleting)

(***************************************************************************)
(* Properties.                                                             *)
(***************************************************************************)
IsIssue(e) == e.ev = "issue"

IsChunkIssue(e) == e.ev = "issue" /\ e.kind = "chunk"

Issues(L) == SelectSeq(L, IsIssue)

ChunkIssues(L) == SelectSeq(L, IsChunkIssue)

\* number of chunk writes among the first p events of L
ChunksBefore(L, p) == Len(ChunkIssues(SubSeq(L, 1, p)))

RECURSIVE ConcatBytes(_)
ConcatBytes(s) ==
    IF s = <<>> THEN <<>> ELSE Head(s).bytes \o ConcatBytes(Tail(s))

CeilDiv(n, m) == (n + m - 1) \div m

InTransport(j) == pc[j] \in {"header", "chunk", "delay", "end"}

\* C1: in every print job the writes occur in the order header, payload
\* chunks in ascending payload offset, terminator; no chunk is written
\* before the header write completed, the terminator is written only after
\* the last chunk write completed, and header and terminator are
\* acknowledged writes.
C1_WriteOrder ==
    \A j \in Jobs :
        LET L == log[j] IN
        \A p \in 1..Len(L) :
            IsIssue(L[p]) =>
                /\ (L[p].kind = "header") <=> (p = 1)
                /\ L[p].kind = "header" => L[p].mode = "withResponse"
                /\ p > 1 => L[2] = SettleEv("header", TRUE)
                /\ L[p].kind = "chunk" =>
                      /\ L[p].at = PACKET_SIZE_BYTES * ChunksBefore(L, p - 1)
                      /\ L[p].at < Len(data[j])
                /\ L[p].kind = "end" =>
                      /\ L[p].mode = "withResponse"
                      /\ L[p].bytes = END_DATA
                      /\ \A q \in (p + 1)..Len(L) : ~IsIssue(L[q])
                      /\ PACKET_SIZE_BYTES * ChunksBefore(L, p) >= Len(data[j])
                      /\ \A q \in 1..(p - 1) :
                            IsIssue(L[q]) =>
                                \E r \in (q + 1)..(p - 1) : L[r] = SettleEv(L[q].kind, TRUE)

C1_Witness ==
    \E j \in Jobs :
        /\ pc[j] = "done"
        /\ Len(ChunkIssues(log[j])) >= 2
        /\ log[j][Len(log[j]) - 1].kind = "end"

\* C2: a successful run on a payload of N bytes issues exactly ceil(N/128)
\* chunk writes, all of 128 bytes except the last, which has
\* N - 128*(ceil(N/128)-1) bytes; no chunk is empty and the chunks in write
\* order concatenate to the payload (N = 1000: 8 writes, the last of 104).
C2_Chunking ==
    \A j \in Jobs :
        pc[j] = "done" =>
            LET cs == ChunkIssues(log[j])
                N == Len(data[j])
                n == CeilDiv(N, PACKET_SIZE_BYTES)
            IN  /\ Len(cs) = n
                /\ \A k \in 1..Len(cs) :
                      /\ Len(cs[k].bytes) > 0
                      /\ k < Len(cs) => Len(cs[k].bytes) = PACKET_SIZE_BYTES
                      /\ k = Len(cs) => Len(cs[k].bytes) = N - PACKET_SIZE_BYTES * (n - 1)
                /\ ConcatBytes(cs) = data[j]
                /\ N = 1000 => Len(cs) = 8 /\ Len(cs[8].bytes) = 104

C2_Witness ==
    \E j \in Jobs :
        /\ pc[j] = "done"
        /\ Len(data[j]) = 1000
        /\ Len(ChunkIssues(log[j])) = 8

\* C3: within one print job no two writes are in flight at the same time.
C3_OneWriteInFlight ==
    \A j \in Jobs : inflight[j] \in {0, 1}

C3_Witness ==
    \E j \in Jobs :
        /\ inflight[j] = 1
        /\ pc[j] = "chunk"
        /\ i[j] >= PACKET_SIZE_BYTES

\* C4: between two consecutive chunk writes of a job the pacing delay
\* elapses: the timer is started after the earlier chunk's write completed
\* and the later chunk is issued when that timer has expired.
C4_PacingDelay ==
    \A j \in Jobs :
        LET L == log[j] IN
        \A p \in 1..Len(L) :
            (IsChunkIssue(L[p]) /\ ChunksBefore(L, p - 1) > 0) =>
                /\ p > 4
                /\ L[p - 1] = TimerEv("timerFire")
                /\ L[p - 2] = TimerEv("timerStart")
                /\ L[p - 3] = SettleEv("chunk", TRUE)
                /\ IsChunkIssue(L[p - 4])

C4_Witness ==
    \E j \in Jobs :
        /\ pc[j] = "chunk"
        /\ Len(ChunkIssues(log[j])) = 3

\* C5: when the header write or a chunk write of a job fails, no later
\* chunk and no terminator is written for that job and the promise returned
\* by printCanvas rejects.
C5_AbortOnFailedWrite ==
    \A j \in Jobs :
        LET L == log[j] IN
        \A p \in 1..Len(L) :
            (L[p].ev = "settle" /\ ~L[p].ok /\ L[p].kind \in {"header", "chunk"}) =>
                /\ \A q \in (p + 1)..Len(L) : ~IsIssue(L[q])
                /\ pc[j] \in {"rejected", "failed"}

C5_Witness ==
    \E j \in Jobs :
        /\ pc[j] = "rejected"
        /\ Len(ChunkIssues(log[j])) = 2
        /\ log[j][Len(log[j])] = SettleEv("chunk", FALSE)
        /\ Len(data[j]) > 2 * PACKET_SIZE_BYTES

\* C6: a job whose transport fails at any stage (header, packet,
\* terminator) raises exactly one handleError call and is never retried or
\* resumed; a job that succeeds raises none.
C6_SingleFailureSignal ==
    \A j \in Jobs :
        LET L == log[j] IN
        /\ errorCalls[j] \in {0, 1}
        /\ pc[j] = "failed" <=> errorCalls[j] = 1
        /\ pc[j] = "done" => errorCalls[j] = 0
        /\ \A p \in 1..Len(L) :
              (L[p].ev = "settle" /\ ~L[p].ok) =>
                  /\ p = Len(L)
                  /\ pc[j] \in {"rejected", "failed"}

C6_Witness ==
    \E j \in Jobs :
        /\ pc[j] = "failed"
        /\ errorCalls[j] = 1
        /\ Len(log[j]) > 0
        /\ log[j][Len(log[j])] = SettleEv("end", FALSE)

\* C7: at most one print job is active at a time: while one job's transport
\* loop is in progress a further submit does not start a second job.
C7_AtMostOneActiveJob ==
    Cardinality({j \in Jobs : InTransport(j)}) <= 1

\* C8: for a canvas of width W (a multiple of 8) and height H with
\* W/8 < 65536 and H < 65536 the header written by printCanvas is the 10
\* bytes 1B 40 1D 76 30 00, W/8 as little-endian 16 bit, H as little-endian
\* 16 bit; for W = 96, H = 320 it is 1B 40 1D 76 30 00 0C 00 40 01.
C8_Header ==
    \A j \in Jobs :
        (log[j] # <<>> /\ canvas.width \div 8 < 65536 /\ canvas.height < 65536) =>
            LET h == log[j][1].bytes IN
            /\ log[j][1].kind = "header"
            /\ Len(h) = 10
            /\ SubSeq(h, 1, 6) = <<27, 64, 29, 118, 48, 0>>
            /\ \A n \in 7..10 : h[n] \in 0..255
            /\ h[7] + 256 * h[8] = canvas.width \div 8
            /\ h[9] + 256 * h[10] = canvas.height
            /\ (canvas.width = 96 /\ canvas.height = 320) =>
                  h = <<27, 64, 29, 118, 48, 0, 12, 0, 64, 1>>

C8_Witness ==
    /\ canvas.width = 96
    /\ canvas.height = 320
    /\ pc[1] = "header"
    /\ log[1][1].bytes[10] = 1

\* bits back to pixels: row-major, 8 pixels per byte, leftmost pixel in the
\* most significant bit, 1 = black, 0 = white
Unpack(d, w, h) ==
    [p \in 1..(w * h) |->
        LET x == (p - 1) % w
            y == (p - 1) \div w
        IN  IF Bit(d[y * (w \div 8) + (x \div 8) + 1], 7 - (x % 8)) = 1
            THEN Black ELSE White]

\* C9: for a black/white image whose width is a multiple of 8, getPrintData
\* returns (width/8)*height bytes and unpacking them reproduces the image's
\* black/white pattern bit for bit.
C9_PackRoundTrip ==
    pc[1] = "header" =>
        /\ Len(data[1]) = (canvas.width \div 8) * canvas.height
        /\ \A p \in 1..(canvas.width * canvas.height) :
              Unpack(data[1], canvas.width, canvas.height)[p] = canvas.px[p]

\* C10: in every byte of getPrintData the leftmost of the 8 pixels is the
\* most significant bit, and a bit is 1 exactly when its pixel is black (0)
\* and 0 exactly when its pixel is white (255).
C10_BlackIsOne ==
    pc[1] = "header" =>
        \A o \in 1..Len(data[1]) :
            \A b \in 0..7 :
                LET w8 == canvas.width \div 8
                    x == ((o - 1) % w8) * 8 + b
                    y == (o - 1) \div w8
                    pixel == canvas.px[y * canvas.width + x + 1]
                IN  /\ Bit(data[1][o], 7 - b) = 1 <=> pixel = Black
                    /\ Bit(data[1][o], 7 - b) = 0 <=> pixel = White

\* C11: when the canvas width is not a multiple of 8 the bit-packing step
\* fails: no packed data is produced and no header, chunk or terminator is
\* written to the printer.
C11_OddWidthRejected ==
    \A j \in Jobs :
        canvas.width % 8 # 0 => (data[j] = <<>> /\ Issues(log[j]) = <<>>)

(***************************************************************************)
(* Properties of ditherImageData.                                          *)
(***************************************************************************)
Outcomes ==
    { runs[k] : k \in 1..Len(runs) } \cup { copies[k] : k \in 1..Len(copies) }

IsTwoLevel(image) ==
    \A p \in 1..Len(image.data) :
        LET px == image.data[p] IN
        /\ px[1] \in {0, 255}
        /\ px[2] = px[1]
        /\ px[3] = px[1]
        /\ px[4] = 255

IsBlackPixel(px) == px[1] = 0

IsUniformCall(v) ==
    /\ call.fn = "ditherImageData"
    /\ call.algorithm \in ErrorDiffusionNames
    /\ \A p \in 1..Len(call.imgData.data) : call.imgData.data[p] = <<v, v, v, 255>>
    /\ runs # <<>>

\* C14 as stated: for every error-diffusion algorithm, size, threshold in
\* 0..255 and serpentine setting, the all-white field dithers to an image
\* with no black pixel and the all-black field to an image that is all black.
C14_UniformFieldsAnyThreshold ==
    /\ IsUniformCall(255) =>
          \A p \in 1..Len(runs[1].image.data) : ~IsBlackPixel(runs[1].image.data[p])
    /\ IsUniformCall(0) =>
          \A p \in 1..Len(runs[1].image.data) : IsBlackPixel(runs[1].image.data[p])

\* C14 amended: the all-white field dithers to an image with no black pixel
\* at every threshold in 0..255; the all-black field dithers to an all-black
\* image at every threshold in 1..255, and at threshold 0 its first pixel
\* comes out white.
C14_UniformFields ==
    /\ IsUniformCall(255) =>
          \A p \in 1..Len(runs[1].image.data) : ~IsBlackPixel(runs[1].image.data[p])
    /\ (IsUniformCall(0) /\ call.threshold >= 1) =>
          \A p \in 1..Len(runs[1].image.data) : IsBlackPixel(runs[1].image.data[p])
    /\ (IsUniformCall(0) /\ call.threshold = 0) =>
          ~IsBlackPixel(runs[1].image.data[1])

\* the all-white field at threshold 255 on the largest image
C14_Witness ==
    /\ IsUniformCall(255)
    /\ call.threshold = 255
    /\ call.algorithm = "jarvis"
    /\ call.serpentine
    /\ Len(call.imgData.data) = MaxSide * MaxSide

\* C15: every algorithm name that ditherImageData does not recognise is
\* handled without error and gives exactly the output of "floyd" for the
\* same image and parameters.
C15_UnknownNameIsFloyd ==
    (call.fn = "ditherImageData" /\ call.algorithm \in UnrecognisedNames
        /\ call.noise = 0 /\ runs # <<>>) =>
            /\ runs[1].ok
            /\ runs[1] = ditherImageData(call.imgData, "floyd", call.threshold,
                                         call.brightness, call.contrast, call.noise,
                                         call.serpentine, call.edgeMap,
                                         [p \in 1..Len(call.imgData.data) |-> 999],
                                         [p \in 1..Len(call.imgData.data) |-> 255])

IsPermutationMatrix(matrix) ==
    LET n == Len(matrix) IN
    /\ \A r \in 1..n : Len(matrix[r]) = n
    /\ \A v \in 0..(n * n - 1) :
          Cardinality({ rc \in (1..n) \X (1..n) : matrix[rc[1]][rc[2]] = v }) = 1

\* C17: the matrix ordered dithering uses for ordered2, ordered4, ordered8 and
\* for any other name starting with "ordered" is an n x n matrix whose entries
\* are a permutation of 0..n*n-1, and the ordered4 matrix is
\* [[0,8,2,10],[12,4,14,6],[3,11,1,9],[15,7,13,5]].
C17_OrderedMatrices ==
    (call.fn = "ditherImageData" /\ startsWithOrdered(call.algorithm)) =>
        /\ IsPermutationMatrix(OrderedMatrix(call.algorithm))
        /\ call.algorithm = "ordered2" => Len(OrderedMatrix(call.algorithm)) = 2
        /\ call.algorithm = "ordered8" => Len(OrderedMatrix(call.algorithm)) = 8
        /\ call.algorithm = "ordered4" =>
              OrderedMatrix(call.algorithm) =
                 << <<0, 8, 2, 10>>, <<12, 4, 14, 6>>, <<3, 11, 1, 9>>, <<15, 7, 13, 5>> >>

\* ordered dithering has run under a name outside ordered2/4/8
C17_Witness ==
    /\ call.fn = "ditherImageData"
    /\ call.algorithm = "ordered3"
    /\ runs # <<>>
    /\ runs[1].ok

InteriorPixels(imgData) ==
    { xy \in (1..(imgData.width - 2)) \X (1..(imgData.height - 2)) : TRUE }

IsolatedBlack(imgData, x, y) ==
    /\ Red(imgData, x, y) = 0
    /\ \A d \in (-1..1) \X (-1..1) :
          d # <<0, 0>> => Red(imgData, x + d[1], y + d[2]) # 0

SinglePixelGap(imgData, x, y) ==
    /\ Red(imgData, x, y) = 255
    /\ \/ /\ Red(imgData, x - 1, y) = 0 /\ Red(imgData, x + 1, y) = 0
          /\ Red(imgData, x, y - 1) = 255 /\ Red(imgData, x, y + 1) = 255
       \/ /\ Red(imgData, x, y - 1) = 0 /\ Red(imgData, x, y + 1) = 0
          /\ Red(imgData, x - 1, y) = 255 /\ Red(imgData, x + 1, y) = 255

\* C16: applyHardwareCleanup changes an interior pixel in exactly two cases:
\* a black pixel with no black pixel among its 8 neighbours becomes white,
\* and a white pixel becomes black exactly when (left and right are black and
\* top and bottom are white) or (top and bottom are black and left and right
\* are white); every other interior pixel keeps its value.
C16_CleanupCases ==
    (call.fn = "applyHardwareCleanup" /\ runs # <<>>) =>
        \A xy \in InteriorPixels(call.imgData) :
            LET x == xy[1]
                y == xy[2]
                before == call.imgData.data[y * call.imgData.width + x + 1]
                after == runs[1].image.data[y * call.imgData.width + x + 1]
            IN  after = IF IsolatedBlack(call.imgData, x, y) THEN <<255, 255, 255, 255>>
                        ELSE IF SinglePixelGap(call.imgData, x, y) THEN <<0, 0, 0, 255>>
                        ELSE before

(***************************************************************************)
(* Properties of processImageWithAdjustments.                              *)
(***************************************************************************)
\* rotate, exact-resolution scale, gamma, CLAHE, Gaussian blur, unsharp mask,
\* edge detection, dither, hardware cleanup
PipelineOrder ==
    << {"rotateImage"}, {"scaleToExactResolution"}, {"applyGammaCorrection"},
       {"applyCLAHE"}, {"applyGaussianBlur"}, {"applyUnsharpMask"}, {"detectEdges"},
       {"ditherImageData", "applyTwoPhaseDiffusion"}, {"applyHardwareCleanup"} >>

PipelinePosition(stage) == CHOOSE n \in 1..Len(PipelineOrder) : stage \in PipelineOrder[n]

\* the stage at position n is enabled by the arguments of the call
StageEnabled(n) ==
    CASE n = 1 -> call.rotation # 0
      [] n = 2 -> call.options.usePrinterResolution
      [] n = 3 -> call.options.useGammaCorrection
      [] n = 4 -> call.options.useCLAHE
      [] n = 5 -> call.options.usePreFiltering
      [] n = 6 -> call.options.usePreFiltering
      [] n = 7 -> call.options.useEdgeAware
      [] n = 8 -> TRUE
      [] OTHER -> call.options.useHardwareCleanup

\* C18: for every combination of option flags processImageWithAdjustments
\* runs the enabled stages in the order rotate, exact-resolution scale, gamma,
\* CLAHE, Gaussian blur, unsharp mask, edge detection, dither, hardware
\* cleanup; a disabled stage is skipped and no stage runs twice or out of
\* this order.
C18_StageOrder ==
    (call.fn = "processImageWithAdjustments" /\ runs # <<>>) =>
        LET stages == runs[1].stages IN
        /\ \A k \in 1..Len(stages) : \E n \in 1..Len(PipelineOrder) : stages[k] \in PipelineOrder[n]
        /\ \A k \in 1..(Len(stages) - 1) :
              PipelinePosition(stages[k]) < PipelinePosition(stages[k + 1])
        /\ \A n \in 1..Len(PipelineOrder) :
              StageEnabled(n) <=> \E k \in 1..Len(stages) : stages[k] \in PipelineOrder[n]

\* a call with every stage enabled has run
C18_Witness ==
    /\ call.fn = "processImageWithAdjustments"
    /\ runs # <<>>
    /\ \A n \in 1..Len(PipelineOrder) : StageEnabled(n)
    /\ Len(runs[1].stages) = 9

\* a configuration error: a non-finite font size, a non-numeric or
\* non-positive label dimension
IsConfigurationError(r) ==
    \/ /\ r.fn = "updateCanvasText"
       /\ isNaN(r.inputs.fontSize)
    \/ /\ r.fn = "updateLabelSize"
       /\ \/ isNaN(r.inputs.inputWidth) \/ r.inputs.inputWidth <= 0
          \/ isNaN(r.inputs.inputHeight) \/ r.inputs.inputHeight <= 0

\* C19: an update whose input is a configuration error detects the error before
\* any other work of the update, reports it to the user, and leaves labelSize,
\* the canvas dimensions and content, generatedCode and processedImage as they
\* were when the update began.
C19_ConfigurationErrorsRejected ==
    call.fn = "editor" =>
        \A k \in 1..Len(runs) :
            IsConfigurationError(runs[k]) =>
                /\ runs[k].workBeforeCheck = <<>>
                /\ Len(runs[k].reports) = 1
                /\ runs[k].changed = {}

(***************************************************************************)
(* Edge-aware thresholding.                                                *)
(***************************************************************************)
\* the image the call returns when no edge map is passed
WithoutEdgeMap ==
    ditherImageData(call.imgData, call.algorithm, call.threshold, call.brightness,
                    call.contrast, call.noise, call.serpentine, null,
                    [p \in 1..Len(call.imgData.data) |-> 999],
                    [p \in 1..Len(call.imgData.data) |-> 255]).image

\* C21: with algorithm "threshold", every pixel that is black when no edge map
\* is passed is also black when the edge map is passed, for every image,
\* threshold and edge map.
C21_EdgesTurnBlackSooner ==
    (call.fn = "ditherImageData" /\ call.algorithm = "threshold" /\ call.noise = 0
        /\ call.edgeMap # null /\ runs # <<>>) =>
            \A p \in 1..Len(call.imgData.data) :
                IsBlackPixel(WithoutEdgeMap.data[p]) => IsBlackPixel(runs[1].image.data[p])

(***************************************************************************)
(* Properties of the error diffusion loop.                                 *)
(***************************************************************************)
\* the pixel of the last pass
LastX == runs[1].order[runs[1].v] % call.imgData.width

LastY == runs[1].order[runs[1].v] \div call.imgData.width

RightToLeft(y) == call.serpentine /\ y % 2 = 1

\* the offsets the kernel names, with x negated on a right-to-left row
KernelOffsets(y) ==
    { << (IF RightToLeft(y) THEN -e.x ELSE e.x), e.y >> :
         e \in { errorKernels[call.algorithm][n] :
                   n \in 1..Len(errorKernels[call.algorithm]) } }

\* C22: with serpentine enabled even rows are visited left to right and odd
\* rows right to left, each pixel exactly once; on a right-to-left row every
\* kernel x-offset is negated, so error placed in the current row goes to
\* pixels ahead in the scan direction; with serpentine disabled every row is
\* visited left to right with the kernel unchanged.
C22_SerpentineScan ==
    call.fn = "errorDiffusion" =>
        LET width == call.imgData.width
            s == runs[1]
        IN  /\ \A k \in 1..s.v :
                  LET y == (k - 1) \div width
                      c == (k - 1) % width
                  IN  s.order[k] = y * width + (IF RightToLeft(y) THEN width - 1 - c ELSE c)
            /\ \A j, k \in 1..s.v : j # k => s.order[j] # s.order[k]
            /\ s.v > 0 =>
                  \A p \in s.changed :
                      LET px == (p - 1) % width
                          py == (p - 1) \div width
                      IN  /\ << px - LastX, py - LastY >> \in KernelOffsets(LastY)
                          /\ py = LastY =>
                                IF RightToLeft(LastY) THEN px < LastX ELSE px > LastX

\* a pass on a right-to-left row moved error to the left and to the row below
C22_Witness ==
    /\ call.fn = "errorDiffusion"
    /\ call.serpentine
    /\ call.imgData.width = MaxSide
    /\ runs[1].v = 2 * MaxSide - 1
    /\ \E p, q \in runs[1].changed :
          /\ (p - 1) \div MaxSide = 1 /\ (p - 1) % MaxSide < LastX
          /\ (q - 1) \div MaxSide = 2

\* the pixels already quantized
Visited == { runs[1].order[k] + 1 : k \in 1..runs[1].v }

\* C23: in every error-diffusion algorithm and either scan mode, error is added
\* only to pixels inside the image that have not yet been quantized, so every
\* pixel visited keeps the value written at its visit.
C23_ErrorGoesAhead ==
    call.fn = "errorDiffusion" =>
        LET width == call.imgData.width
            height == call.imgData.height
            s == runs[1]
        IN  /\ s.changed \cap Visited = {}
            /\ s.v > 0 =>
                  \A p \in s.changed :
                      \E e \in KernelOffsets(LastY) :
                          /\ LastX + e[1] \in 0..(width - 1)
                          /\ LastY + e[2] \in 0..(height - 1)
                          /\ p - 1 = (LastY + e[2]) * width + LastX + e[1]
            /\ \A p \in Visited :
                  /\ s.gray[p] \in {0, 255 * GrayUnit}
                  /\ s.data[p] = << s.gray[p] \div GrayUnit, s.gray[p] \div GrayUnit,
                                    s.gray[p] \div GrayUnit, 255 >>

\* the loop is over on a full-size image and its passes moved error
C23_Witness ==
    /\ call.fn = "errorDiffusion"
    /\ call.algorithm = "jarvis"
    /\ ~call.serpentine
    /\ call.imgData.width = MaxSide
    /\ call.imgData.height = MaxSide
    /\ runs[1].v = MaxSide * MaxSide
    /\ \E p \in Visited : runs[1].gray[p] = 0
    /\ \E p \in Visited : runs[1].gray[p] = 255 * GrayUnit

(***************************************************************************)
(* Properties of generateBlueNoiseMap.                                     *)
(***************************************************************************)
\* C24: generateBlueNoiseMap places every cell exactly once: the cell chosen at
\* iteration i was not placed before, so on return all cells are marked placed
\* and the cell placed at rank i holds floor(i / size^2 * 256), for every
\* outcome of the candidate draws.
C24_EveryCellPlacedOnce ==
    call.fn = "generateBlueNoiseMap" =>
        LET s == runs[1]
            n == call.size * call.size
        IN  /\ \A j, k \in 1..Len(s.placed) : j # k => s.placed[j] # s.placed[k]
            /\ s.i = n =>
                  /\ \A c \in 1..n : s.used[c]
                  /\ \A k \in 1..n : s.map[s.placed[k] + 1] = ((k - 1) * 256) \div n

(***************************************************************************)
(* Properties of the preview rotation.                                     *)
(***************************************************************************)
\* C25: two runs with the same label inputs that differ only in their
\* rotate-clockwise / rotate-counter-clockwise clicks have the same canvas
\* content and print the same header and payload bytes.
C25_RotationNeverPrinted ==
    call.fn = "preview" =>
        /\ runs[1].canvas = runs[2].canvas
        /\ runs[1].printed = runs[2].printed

\* the runs printed a label with black pixels while their previews were
\* turned differently
C25_Witness ==
    /\ call.fn = "preview"
    /\ call.copy = "part_001"
    /\ runs[1].previewRotation = 180
    /\ runs[2].previewRotation = -90
    /\ runs[1].style # runs[2].style
    /\ Len(runs[1].printed) = MaxJobs
    /\ \E k \in 1..Len(runs[1].printed[MaxJobs].payload) :
           runs[1].printed[MaxJobs].payload[k] \notin {0, 255}

(***************************************************************************)
(* Properties of applyTwoPhaseDiffusion.                                   *)
(***************************************************************************)
\* ordered4 without serpentine and edge map, with the caller's tone settings
Ordered4Of(imgData, rnd) ==
    ditherImageData(imgData, "ordered4", call.threshold, call.brightness,
                    call.contrast, call.noise, FALSE, null, rnd, <<>>).image

\* floyd with threshold t, serpentine, no tone change, and the given edge map
FloydOf(imgData, t, edgeMap) ==
    ditherImageData(imgData, "floyd", t, 0, 0, 0, TRUE, edgeMap, <<>>, <<>>).image

\* C26: the two-phase result equals floyd (threshold + 10, serpentine on, no
\* brightness, contrast or noise, the original edge map) applied to the output
\* of ordered4 (no serpentine, no edge map, the caller's brightness, contrast
\* and noise) on a copy of the input; phase 1 leaves the caller's buffer
\* unmodified.
C26_TwoPhaseComposition ==
    (call.fn = "applyTwoPhaseDiffusion" /\ runs # <<>>) =>
        /\ runs[1].caller = call.imgData.data
        /\ runs[1].image = Ordered4Of(call.imgData, runs[1].rnd)
        /\ Len(runs) = 2 =>
              /\ runs[2].ok
              /\ runs[2].image = FloydOf(Ordered4Of(call.imgData, runs[1].rnd),
                                         call.threshold + 10, call.edgeMap)
              /\ runs[2].caller = call.imgData.data

\* both calls returned, with an edge map, on an image that phase 1 changes
C26_Witness ==
    /\ call.fn = "applyTwoPhaseDiffusion"
    /\ call.edgeMap # null
    /\ call.noise > 0
    /\ Len(call.imgData.data) = MaxSide * MaxSide
    /\ Len(runs) = 2
    /\ runs[1].image.data # call.imgData.data
    /\ runs[2].image # runs[1].image

\* C27: with no edge map and a threshold t with 0 <= t <= 245 the second
\* (floyd) pass changes no pixel: the final image equals the phase-1 ordered4
\* image.
C27_SecondPassIdle ==
    (call.fn = "applyTwoPhaseDiffusion" /\ Len(runs) = 2 /\ call.edgeMap = null
        /\ call.threshold >= 0 /\ call.threshold <= 245) =>
            runs[2].image = runs[1].image

\* both calls returned at threshold 245 on an image with pixels of both colours
C27_Witness ==
    /\ call.fn = "applyTwoPhaseDiffusion"
    /\ call.edgeMap = null
    /\ call.threshold = 245
    /\ Len(runs) = 2
    /\ \E p, q \in 1..Len(runs[1].image.data) :
          IsBlackPixel(runs[1].image.data[p]) /\ ~IsBlackPixel(runs[1].image.data[q])

(***************************************************************************)
(* Properties of print jobs beside label edits.                            *)
(***************************************************************************)
\* the 16-bit field of a header whose low byte is at position p
HeaderField(bytes, p) == bytes[p] + 256 * bytes[p + 1]

\* C28: the bytes of a print job are fixed when printCanvas is called: every
\* chunk written is the slice of the payload packed at the call, whatever
\* happens to the canvas while the loop is suspended, and the dimensions in the
\* header agree with the payload length.
C28_JobBytesFixed ==
    \A j \in Jobs :
        \A k \in 1..Len(log[j]) :
            LET e == log[j][k] IN
            /\ (e.ev = "issue" /\ e.kind = "chunk") =>
                   e.bytes = slice(data[j], e.at, e.at + PACKET_SIZE_BYTES)
            /\ (e.ev = "issue" /\ e.kind = "header") =>
                   HeaderField(e.bytes, 7) * HeaderField(e.bytes, 9) = Len(data[j])

(***************************************************************************)
(* Properties of overlapping updateCanvasText invocations.                 *)
(***************************************************************************)
\* the codes the label of the current settings can show: none when no code is
\* asked for, else the code of the current data (or none when its generation
\* failed)
ExpectedCodes ==
    IF dom.codeType # "none" /\ dom.codeData # ""
    THEN {dom.codeData, "null"} ELSE {"null"}

\* C29: once every pending updateCanvasText invocation has finished, the canvas
\* shows the label rendered from the settings read by the most recent
\* invocation: an earlier invocation that resumes later never draws over the
\* result of a later one.
C29_LatestSettingsShown ==
    (call.fn = "editor" /\ call.copy = "index.js" /\ pending = <<>>
        /\ ~isNaN(dom.inputFontSize)
        /\ canvas.content.drawn) =>
            /\ canvas.content.fontSize = dom.inputFontSize
            /\ canvas.content.code \in ExpectedCodes

(***************************************************************************)
(* Termination of printCanvas.                                             *)
(***************************************************************************)
IssueKinds(L) == [k \in 1..Len(Issues(L)) |-> Issues(L)[k].kind]

\* C30: when every write and every pacing delay eventually completes,
\* printCanvas terminates for every payload length N >= 0: the loop ends after
\* ceil(N/128) chunks and the terminator is then written; for N = 0 no chunk
\* is written and the terminator directly follows the header.
C30_PrintCanvasTerminates ==
    /\ \A j \in Jobs : (pc[j] = "header") ~> (pc[j] = "done")
    /\ [](\A j \in Jobs :
             pc[j] = "done" =>
                LET N == Len(data[j])
                    kinds == IssueKinds(log[j])
                IN  /\ Len(ChunkIssues(log[j])) = (N + 127) \div 128
                    /\ Len(kinds) = ((N + 127) \div 128) + 2
                    /\ kinds[1] = "header"
                    /\ kinds[Len(kinds)] = "end"
                    /\ N = 0 => kinds = <<"header", "end">>)

\* a job on an empty payload has finished
C30_Witness ==
    /\ pc[1] = "done"
    /\ data[1] = <<>>
    /\ canvas = MakeCanvas(4, 1, "black")
    /\ IssueKinds(log[1]) = <<"header", "end">>

====
